---- MODULE Spec2Model ----
(***************************************************************************)
(* A model of the networking layer of the Engine repository: the byte      *)
(* cursor (BytePacker), the packet codec (NetPacket), the per-connection   *)
(* send path (NetConnection::Send / FlushMessages) and the receive-side    *)
(* bookkeeping declared by NetConnection.hpp (ack bitfield, packet         *)
(* trackers, reliable-ID history, sequence channels).                      *)
(*                                                                         *)
(* Each component has its own specification over the shared variables:     *)
(*   Spec       the send path of NetConnection.cpp                          *)
(*   SpecSeq    one sequence channel under arbitrary arrival orders         *)
(*   SpecAck    the receive path: ack bitfield, trackers, dedupe history    *)
(*   SpecCodec  header round trip and packet decoding                       *)
(***************************************************************************)
EXTENDS Integers, Sequences, FiniteSets, TLC

(***************************************************************************)
(* Program constants                                                       *)
(***************************************************************************)
ETHERNET_MTU == 1500

PACKET_MTU == ETHERNET_MTU - 40 - 8

PACKET_HEADER_SIZE == 8

INVALID_CONNECTION_INDEX == 255

INVALID_PACKET_ACK == 65535

MAX_UNACKED_HISTORY == 256

MAX_RELIABLES_PER_PACKET == 32

RELIABLE_WINDOW == 32

LOSS_WINDOW_COUNT == 50

\* The header bytes FlushMessages reserves with AdvanceWriteHead(2).
RESERVED_HEADER_BYTES == 2

\* Per-message framing: 2 bytes of size and 1 byte of definition index.
MESSAGE_FRAMING_BYTES == 3

\* uint16_t and uint8_t moduli.
U16 == 65536

U8 == 256

LITTLE_ENDIAN == "LITTLE_ENDIAN"

BIG_ENDIAN == "BIG_ENDIAN"

\* The byte order of the machine the engine is built for (x86/x64 Windows).
MachineEndianness == LITTLE_ENDIAN

(***************************************************************************)
(* Bounds of the model                                                     *)
(***************************************************************************)
\* Longest outbound queue Send is allowed to build.
MaxQueue == 2

\* In Spec, FlushMessages is scheduled while the watched message is younger
\* than this many packets.
MaxAge == 2

\* In SpecAging the watched message ages this many packets beyond
\* MAX_UNACKED_HISTORY.
AgingSlack == 1

(***************************************************************************)
(* Small helpers                                                           *)
(***************************************************************************)
Min(a, b) == IF a < b THEN a ELSE b

Max(a, b) == IF a > b THEN a ELSE b

Reverse(s) == <<>> \o [i \in 1..Len(s) |-> s[Len(s) + 1 - i]]

Zeros(n) == [i \in 1..n |-> 0]

\* The bytes of an unsigned value of the given width, in machine order.
BytesOf(value, width) ==
    [i \in 1..width |-> IF MachineEndianness = LITTLE_ENDIAN
                          THEN (value \div (U8 ^ (i - 1))) % U8
                          ELSE (value \div (U8 ^ (width - i))) % U8]

RECURSIVE ValueOfLE(_)
ValueOfLE(bytes) ==
    IF bytes = <<>> THEN 0 ELSE bytes[1] + U8 * ValueOfLE(Tail(bytes))

\* The unsigned value a machine-order byte string denotes.
ValueOf(bytes) ==
    IF MachineEndianness = LITTLE_ENDIAN THEN ValueOfLE(bytes)
    ELSE ValueOfLE(Reverse(bytes))

(***************************************************************************)
(* BytePacker                                                              *)
(***************************************************************************)
\* ToEndianness / FromEndianness: swap the bytes when the target order is
\* not the machine's.
ToEndianness(data, endianness) ==
    IF endianness = MachineEndianness THEN data ELSE Reverse(data)

FromEndianness(data, endianness) ==
    IF endianness = MachineEndianness THEN data ELSE Reverse(data)

NewBytePacker(capacity, endianness) ==
    [m_buffer |-> <<>>, m_writeHead |-> 0, m_readHead |-> 0,
     m_bufferCapacity |-> capacity, m_endianness |-> endianness]

\* size_t subtraction: a negative difference wraps to a value larger than
\* any request of the model.
SizeSub(a, b) == IF a >= b THEN a - b ELSE 1073741824 - (b - a)

GetWrittenByteCount(bp) == bp.m_writeHead

GetRemainingWritableByteCount(bp) == SizeSub(bp.m_bufferCapacity, bp.m_writeHead)

GetRemainingReadableByteCount(bp) == SizeSub(bp.m_writeHead, bp.m_readHead)

ExpandBuffer(bp, requestedAddition) ==
    [bp EXCEPT !.m_bufferCapacity =
        bp.m_bufferCapacity + Max(requestedAddition, bp.m_bufferCapacity)]

\* The buffer with `bytes` stored from offset `at` (0-based); bytes the
\* buffer never held before are 0.
StoreAt(buffer, at, bytes) ==
    LET padded == IF Len(buffer) >= at THEN buffer
                  ELSE buffer \o Zeros(at - Len(buffer))
    IN  SubSeq(padded, 1, at) \o bytes
          \o SubSeq(padded, at + Len(bytes) + 1, Len(padded))

WriteBytesNoSwap(bp, data) ==
    LET b == IF GetRemainingWritableByteCount(bp) < Len(data)
               THEN ExpandBuffer(bp, Len(data)) ELSE bp
    IN  [b EXCEPT !.m_buffer = StoreAt(b.m_buffer, b.m_writeHead, data),
                  !.m_writeHead = b.m_writeHead + Len(data)]

WriteBytes(bp, data) ==
    LET b == IF GetRemainingWritableByteCount(bp) < Len(data)
               THEN ExpandBuffer(bp, Len(data)) ELSE bp
    IN  [b EXCEPT !.m_buffer = StoreAt(b.m_buffer, b.m_writeHead,
                                       ToEndianness(data, b.m_endianness)),
                  !.m_writeHead = b.m_writeHead + Len(data)]

\* The number of bytes ReadBytes copies out.
ReadAmountUnclamped(bp, maxByteCount) == maxByteCount

ReadAmount(bp, maxByteCount) ==
    Min(maxByteCount, GetRemainingReadableByteCount(bp))

\* ReadBytes: <<the packer afterwards, the bytes read in machine order>>.
\* A byte beyond what the buffer ever held reads as -1 (foreign memory).
ReadBytes(bp, maxByteCount) ==
    LET amountToRead == ReadAmount(bp, maxByteCount)
        held == Min(bp.m_readHead + amountToRead, Len(bp.m_buffer))
        raw == SubSeq(bp.m_buffer, bp.m_readHead + 1, held)
                 \o [i \in 1..(bp.m_readHead + amountToRead
                                - Max(held, bp.m_readHead)) |-> -1]
    IN  <<[bp EXCEPT !.m_readHead = bp.m_readHead + amountToRead],
          FromEndianness(raw, bp.m_endianness)>>

ResetRead(bp) == [bp EXCEPT !.m_readHead = 0]

\* The mutant: only the read head is reset.
ResetWriteKeepingBytes(bp) == ResetRead(bp)

ResetWrite(bp) == ResetRead([bp EXCEPT !.m_writeHead = 0])

AdvanceWriteHead(bp, byteCount) ==
    [bp EXCEPT !.m_writeHead = bp.m_writeHead + byteCount]

\* WriteSize, lines 82-101: seven bits per byte, low bits first, bit 7 set
\* on every byte but the last. Returns <<packer, bytes written>>.
RECURSIVE WriteSizeLoop(_, _, _)
WriteSizeLoop(bp, remainingValue, bytesWritten) ==
    LET rest == remainingValue \div 128
        toWrite == (remainingValue % 128) + (IF rest > 0 THEN 128 ELSE 0)
        written == WriteBytes(bp, <<toWrite>>)
    IN  IF rest > 0 THEN WriteSizeLoop(written, rest, bytesWritten + 1)
        ELSE <<written, bytesWritten + 1>>

WriteSize(bp, size) == WriteSizeLoop(bp, size, 0)

\* ReadSize, lines 112-118: valueRead keeps its value when ReadBytes reads
\* nothing, and is uninitialised before the first byte; a byte the buffer
\* never held is as good as uninitialised. The call does not return when
\* such a value has bit 7 set. Returns the packer, the size, the bytes read
\* and whether the call returned.
RECURSIVE ReadSizeLoop(_, _, _, _)
ReadSizeLoop(bp, bytesRead, total, valueRead) ==
    LET r == ReadBytes(bp, 1)
        got == Len(r[2]) = 1 /\ r[2][1] >= 0
        value == IF got THEN r[2][1] ELSE valueRead
        sum == total + (value % 128)
    IN  IF value >= 128 /\ ~got
          THEN [packer |-> r[1], size |-> sum, bytesRead |-> bytesRead + Len(r[2]),
                returned |-> FALSE]
        ELSE IF value >= 128
          THEN ReadSizeLoop(r[1], bytesRead + 1, sum, value)
        ELSE [packer |-> r[1], size |-> sum, bytesRead |-> bytesRead + Len(r[2]),
              returned |-> TRUE]

ReadSize(bp, uninitialised) == ReadSizeLoop(bp, 0, 0, uninitialised)

\* WriteString, lines 124-144. Returns the packer.
WriteString(bp, str) ==
    LET characterCount == Len(str)
        sized == WriteSize(bp, characterCount)[1]
        roomy == IF GetRemainingWritableByteCount(sized) < characterCount
                   THEN ExpandBuffer(sized, characterCount) ELSE sized
    IN  [roomy EXCEPT !.m_buffer = StoreAt(@, roomy.m_writeHead, str),
                      !.m_writeHead = @ + characterCount]

\* ReadString, lines 146-175, with a buffer of maxByteSize bytes given, or
\* none (maxByteSize 0): the bytes copied out (-1 for a byte the buffer never
\* held) and the read head moved by the length read, whatever is readable.
ReadString(bp, maxByteSize, uninitialised) ==
    LET sized == ReadSize(bp, uninitialised)
        stringLength == sized.size
        numberToRead == IF maxByteSize = 0 THEN stringLength
                        ELSE Min(stringLength, maxByteSize - 1)
        from == sized.packer.m_readHead
        held == Len(sized.packer.m_buffer)
        copied == [i \in 1..numberToRead |->
                      IF from + i <= held THEN sized.packer.m_buffer[from + i]
                      ELSE -1]
    IN  [packer |-> [sized.packer EXCEPT !.m_readHead = @ + stringLength],
         str |-> copied, returned |-> sized.returned]

(***************************************************************************)
(* NetMessage and PacketHeader_t                                           *)
(***************************************************************************)
\* A NetMessage: its definition index, whether it was created reliable, the
\* reliable ID it carries once one is assigned, and the written byte count
\* of its payload (a NetMessage is a BytePacker).
NetMessage(definitionIndex, reliable, payloadSize) ==
    [definitionIndex |-> definitionIndex, reliable |-> reliable,
     reliableID |-> 0, m_writeHead |-> payloadSize]

\* The payload bytes of a message (the content is immaterial to framing).
PayloadOf(msg) ==
    <<>> \o [i \in 1..msg.m_writeHead |-> msg.definitionIndex]

\* PacketHeader_t with its default member initialisers.
DefaultPacketHeader ==
    [senderConnectionIndex |-> INVALID_CONNECTION_INDEX,
     packetAck |-> INVALID_PACKET_ACK,
     receivedHistory |-> 0,
     highestReceivedAck |-> INVALID_PACKET_ACK,
     totalMessageCount |-> 0]

\* PacketHeader_t(connectionIndex, messageCount).
PacketHeader(connectionIndex, messageCount) ==
    [DefaultPacketHeader EXCEPT !.senderConnectionIndex = connectionIndex,
                                !.totalMessageCount = messageCount]

(***************************************************************************)
(* NetPacket: the codec over the byte cursor                               *)
(***************************************************************************)
NewNetPacket(endianness) == NewBytePacker(PACKET_MTU, endianness)

\* The header's fields in wire order, each with its width in bytes.
HeaderLayout(header) ==
    << <<header.senderConnectionIndex, 1>>, <<header.packetAck, 2>>,
       <<header.receivedHistory, 2>>, <<header.highestReceivedAck, 2>>,
       <<header.totalMessageCount, 1>> >>

RECURSIVE WriteFields(_, _)
WriteFields(bp, fields) ==
    IF fields = <<>> THEN bp
    ELSE WriteFields(WriteBytes(bp, BytesOf(fields[1][1], fields[1][2])),
                     Tail(fields))

\* WriteHeader: the 8 header bytes go to the front of the packet, whatever
\* has been written behind them; the write head ends behind the content.
WriteHeader(packet, header) ==
    LET written == packet.m_writeHead
        atFront == WriteFields([packet EXCEPT !.m_writeHead = 0],
                               HeaderLayout(header))
    IN  [atFront EXCEPT !.m_writeHead = Max(written, atFront.m_writeHead)]

\* Reads fields of the given widths: <<packer, values, bytes read>>.
RECURSIVE ReadFields(_, _, _, _)
ReadFields(bp, widths, values, bytesRead) ==
    IF widths = <<>> THEN <<bp, values, bytesRead>>
    ELSE LET r == ReadBytes(bp, widths[1])
         IN  ReadFields(r[1], Tail(widths), Append(values, ValueOf(r[2])),
                        bytesRead + Len(r[2]))

\* ReadHeader: <<packet, success, header>>; fails when fewer than the 8
\* header bytes are readable.
ReadHeader(packet) ==
    LET r == ReadFields(packet, <<1, 2, 2, 2, 1>>, <<>>, 0)
        v == r[2]
    IN  IF r[3] # PACKET_HEADER_SIZE
          THEN <<r[1], FALSE, DefaultPacketHeader>>
          ELSE <<r[1], TRUE,
                 [senderConnectionIndex |-> v[1], packetAck |-> v[2],
                  receivedHistory |-> v[3], highestReceivedAck |-> v[4],
                  totalMessageCount |-> v[5]]>>

\* CanFitMessage: the framing and the payload fit the writable rest.
CanFitMessage(packet, msg) ==
    GetRemainingWritableByteCount(packet) >= MESSAGE_FRAMING_BYTES + msg.m_writeHead

\* WriteMessage: u16 length (index byte + payload) | u8 index | payload.
WriteMessage(packet, msg) ==
    LET sized == WriteBytes(packet, BytesOf((1 + msg.m_writeHead) % U16, 2))
        indexed == WriteBytes(sized, BytesOf(msg.definitionIndex, 1))
    IN  WriteBytes(indexed, PayloadOf(msg))

\* ReadMessage: <<packet, success, message>>; fails, reading no further,
\* when the length prefix or the declared bytes are not all readable.
ReadMessage(packet) ==
    LET none == NetMessage(0, FALSE, 0)
        len == ReadBytes(packet, 2)
        length == ValueOf(len[2])
    IN  IF Len(len[2]) < 2 \/ length < 1
             \/ GetRemainingReadableByteCount(len[1]) < length
          THEN <<len[1], FALSE, none>>
          ELSE LET idx == ReadBytes(len[1], 1)
                   body == ReadBytes(idx[1], length - 1)
               IN  <<body[1], TRUE,
                     NetMessage(ValueOf(idx[2]), FALSE, Len(body[2]))>>

(***************************************************************************)
(* State                                                                   *)
(***************************************************************************)
VARIABLES
    \* NetConnection's outbound queues.
    m_outboundUnreliables, m_unsentReliables, m_unconfirmedReliables,
    \* The packets the most recent FlushMessages handed to the Session.
    handed,
    \* The send timer: the time elapsed since it was last reset, in ticks.
    m_sendTimer,
    \* History: the first reliable message passed to Send, where it is, and
    \* how many packets were handed to the Session after the one carrying it.
    watch,
    \* NetConnection's sequence channels: per channel the next expected
    \* sequence number and the messages held back.
    m_sequenceChannels,
    \* History: per channel the sequence numbers handed to the application,
    \* and the arrivals so far.
    delivered, arrivalLog,
    \* The reliable IDs already processed.
    m_receivedReliableIDs,
    \* History: the reliable IDs handed on to sequencing, in order, and the
    \* last arrival with the answer HasReliableIDAlreadyBeenReceived gave.
    processedLog, lastDuplicate,
    \* Receive-side ack bookkeeping.
    m_highestReceivedAck, m_receivedBitfield,
    \* History: the packet acks received so far, the last arrival with the
    \* bookkeeping as it was before it, and the peer's packets received so far
    \* by their running number (the n-th packet carries ack n mod 2^16).
    receivedAcks, lastRecv, receivedPackets,
    \* Send-side reliable bookkeeping: the tracker ring, the next ack and
    \* reliable ID, the smoothed round-trip time and the clock it is taken
    \* from.
    m_packetTrackers, m_nextAckToSend, m_nextReliableIDToSend, m_rtt, now,
    \* History: the reliable IDs of the messages freed on confirmation, in
    \* order, and the acks the last OnPacketReceived confirmed.
    freedLog, lastConfirmed,
    \* The codec: a packet being written and read back with the header that
    \* went in and what came out, and the last received packet with the
    \* outcome of decoding it.
    wire, headerRead, lastDecode

queueVars == <<m_outboundUnreliables, m_unsentReliables, m_unconfirmedReliables>>

sendVars == <<queueVars, handed, watch, m_sendTimer>>

seqVars == <<m_sequenceChannels, delivered, arrivalLog>>

dedupeVars == <<m_receivedReliableIDs, processedLog, lastDuplicate>>

recvVars == <<m_highestReceivedAck, m_receivedBitfield, receivedAcks, lastRecv,
              receivedPackets>>

trackVars == <<m_packetTrackers, m_nextAckToSend, m_nextReliableIDToSend, m_rtt,
               now, freedLog, lastConfirmed>>

codecVars == <<wire, headerRead, lastDecode>>

VARIABLES
    \* A PacketTracker_t on its own, with the last AddReliableID call on it,
    \* the number of reliable IDs offered to it and of Clear calls so far.
    unitTracker, lastAdd, nextOffered, clearCalls

unitVars == <<unitTracker, lastAdd, nextOffered, clearCalls>>

VARIABLES
    \* History: per sequence channel the number of in-order messages passed
    \* to Send.
    sendCount

orderVars == <<sendCount>>

VARIABLES
    \* The tick intervals of the session and of the connection, in ticks, and
    \* the forced-resend flag.
    sessionTimeBetweenSends, m_timeBetweenSends, m_forceSendNextTick,
    \* History: the last FlushMessages of the net tick: whether a send was
    \* forced and the queues were empty when it was called, the packets it
    \* handed to the Session and the forced-send flag it left.
    lastFlush

tickVars == <<sessionTimeBetweenSends, m_timeBetweenSends, m_forceSendNextTick,
              lastFlush>>

VARIABLES
    \* RemoteCommandService: its state, whether a join request address is
    \* set, the sockets of its connections (each with the number it was
    \* created under and whether it is closed) and their receive buffers
    \* (each with the number of the socket it was created for).
    m_state, m_joinRequestAddress, m_connections, m_buffers,
    \* History: the number of sockets created so far, and the sockets passed
    \* to ProcessConnection in a BeginFrame that began with them closed.
    socketsCreated, lateProcessed

rcsVars == <<m_state, m_joinRequestAddress, m_connections, m_buffers,
             socketsCreated, lateProcessed>>

VARIABLES
    \* History of the NetMessage objects: the number of messages allocated
    \* and passed to Send so far (each is known by its number), per queue the
    \* numbers of the messages it holds, in the queue's order, the numbers
    \* of the messages deleted, and whether the connection was destroyed.
    allocated, heldPointers, freedPointers, destroyed

ownVars == <<allocated, heldPointers, freedPointers, destroyed>>

VARIABLES
    \* A BytePacker on its own, whether a call on it failed to return, and
    \* the calls made on it so far, each with its argument and result.
    packer, packerHung, packerLog

packerVars == <<packer, packerHung, packerLog>>

VARIABLES
    \* The loss bookkeeping: the packets sent and the packets counted as lost
    \* in the current loss window.
    m_packetsSent, m_lossCount

lossVars == <<m_packetsSent, m_lossCount>>

VARIABLES
    \* The heartbeat interval in ticks, the heartbeat timer (the time it was
    \* started at and its interval) and the clock it reads.
    m_timeBetweenHeartbeats, m_heartbeatTimer, heartbeatClock,
    \* History: the last HasHeartbeatElapsed call (when it was made, what it
    \* returned, the time since the previous call that returned true, the
    \* timer before and after it), and the time of the last call that
    \* returned true.
    lastHeartbeat, lastTrueAt

heartVars == <<m_timeBetweenHeartbeats, m_heartbeatTimer, heartbeatClock,
               lastHeartbeat, lastTrueAt>>

VARIABLES
    \* History: the last call of RemoteCommandService::Send (its arguments,
    \* the number of connections it found, what it returned and the indices
    \* at which it accessed m_connections), and the last run of the
    \* broadcast-and-run-here console command (its command, the number of
    \* connections it found and what it did, in order).
    lastSend, lastAll

cmdVars == <<lastSend, lastAll>>

VARIABLES
    \* One connection of the RemoteCommandService: its receive buffer and the
    \* bytes that arrived on its socket and were not received yet.
    frameBuffer, frameStream,
    \* History: the frames the peer sent, the frames ProcessMessage was
    \* called with, and the last ProcessConnection call (whether it called
    \* ProcessMessage, with how many bytes written and which length
    \* declared).
    framesSent, frameLog, lastProcess

frameVars == <<frameBuffer, frameStream, framesSent, frameLog, lastProcess>>

\* What the later runs add.
moreVars == <<lossVars, heartVars, cmdVars, frameVars>>

\* The connection proper, and what the runs of single parts add to it.
connVars == <<sendVars, seqVars, dedupeVars, recvVars, trackVars, codecVars>>

extraVars ==
    <<unitVars, orderVars, tickVars, rcsVars, ownVars, packerVars, moreVars>>

vars == <<connVars, extraVars>>

(***************************************************************************)
(* NetConnection: the send path (NetConnection.cpp)                        *)
(***************************************************************************)
\* The index the Session reports for the local connection.
LocalConnectionIndex == 0

\* Payload sizes of the messages the application sends: a small one, one of
\* which two fill a packet, the largest that fits a fresh packet, and the
\* smallest that does not.
PayloadSizes ==
    {10, 720,
     PACKET_MTU - RESERVED_HEADER_BYTES - MESSAGE_FRAMING_BYTES,
     PACKET_MTU - RESERVED_HEADER_BYTES - MESSAGE_FRAMING_BYTES + 1}

DefinitionIndices == {1}

Messages ==
    {NetMessage(d, r, n) : d \in DefinitionIndices, r \in BOOLEAN,
                           n \in PayloadSizes}

InitSend ==
    /\ m_outboundUnreliables = <<>>
    /\ m_unsentReliables = <<>>
    /\ m_unconfirmedReliables = <<>>
    /\ handed = <<>>
    /\ m_sendTimer = 0
    /\ watch = [status |-> "none", pos |-> 0, msg |-> NetMessage(0, FALSE, 0),
                age |-> 0]

\* Line 63: push_back on m_outboundUnreliables, whatever the message's kind.
PushBack(msg) ==
    /\ m_outboundUnreliables' = Append(m_outboundUnreliables, msg)
    /\ watch' = IF msg.reliable /\ watch.status = "none"
                  THEN [status |-> "queued",
                        pos |-> Len(m_outboundUnreliables) + 1,
                        msg |-> msg, age |-> 0]
                  ELSE watch
    /\ UNCHANGED <<m_unsentReliables, m_unconfirmedReliables, handed,
                   m_sendTimer>>

\* Send, while the queue holds fewer than MaxQueue messages.
Send(msg) ==
    /\ Len(m_outboundUnreliables) < MaxQueue
    /\ PushBack(msg)

\* What the Session is handed: the header, the packet's written byte count
\* and the messages written into it.
HandedPacket(packet, header, messages) ==
    [header |-> header, writtenBytes |-> GetWrittenByteCount(packet),
     messages |-> messages]

\* Lines 100-104 and 126-129: write the header, SendPacket.
HandOff(st) ==
    LET header == PacketHeader(LocalConnectionIndex, st.messagesWritten)
        packet == WriteHeader(st.packet, header)
    IN  [st EXCEPT !.packet = packet,
                   !.handed = Append(@, HandedPacket(packet, header, st.written))]

\* The mutant: a message that does not fit the packet being built is left
\* out of the packet started for it.
RECURSIVE FlushLoopDropping(_, _, _)
FlushLoopDropping(queue, msgIndex, st) ==
    IF msgIndex > Len(queue) THEN st
    ELSE
      LET msg == queue[msgIndex]
          totalSize == (2 + 1 + GetWrittenByteCount(msg)) % U16
      IN  IF GetRemainingWritableByteCount(st.packet) >= totalSize
            THEN FlushLoopDropping(queue, msgIndex + 1,
                   [st EXCEPT !.packet = WriteMessage(@, msg),
                              !.messagesWritten = (@ + 1) % U8,
                              !.written = Append(@, msg)])
            ELSE
              LET sent == HandOff(st)
                  fresh == AdvanceWriteHead(ResetWrite(sent.packet),
                                            RESERVED_HEADER_BYTES)
              IN  FlushLoopDropping(queue, msgIndex + 1,
                    [sent EXCEPT !.packet = fresh,
                                 !.messagesWritten = 0,
                                 !.written = <<>>])

\* Lines 85-124: one iteration per queued message. st holds the packet being
\* built, the uint8_t counter, the messages written and the packets handed.
RECURSIVE FlushLoop(_, _, _)
FlushLoop(queue, msgIndex, st) ==
    IF msgIndex > Len(queue) THEN st
    ELSE
      LET msg == queue[msgIndex]
          totalSize == (2 + 1 + GetWrittenByteCount(msg)) % U16
      IN  IF GetRemainingWritableByteCount(st.packet) >= totalSize
            THEN FlushLoop(queue, msgIndex + 1,
                   [st EXCEPT !.packet = WriteMessage(@, msg),
                              !.messagesWritten = (@ + 1) % U8,
                              !.written = Append(@, msg)])
            ELSE
              LET sent == HandOff(st)
                  fresh == AdvanceWriteHead(ResetWrite(sent.packet),
                                            RESERVED_HEADER_BYTES)
              IN  FlushLoop(queue, msgIndex + 1,
                    [sent EXCEPT !.packet = WriteMessage(fresh, msg),
                                 !.messagesWritten = 1,
                                 !.written = <<msg>>])

\* The packets one FlushMessages hands to the Session for a non-empty queue.
FlushPackets(queue) ==
    LET start == [packet |-> AdvanceWriteHead(NewNetPacket(LITTLE_ENDIAN),
                                              RESERVED_HEADER_BYTES),
                  messagesWritten |-> 0, written |-> <<>>, handed |-> <<>>]
    IN  HandOff(FlushLoop(queue, 1, start)).handed

\* History: the 1-based index, among the packets, of the one that carries
\* the message at queue position pos (0 when none does).
RECURSIVE PacketOfPosition(_, _, _)
PacketOfPosition(packets, pos, k) ==
    IF k > Len(packets) THEN 0
    ELSE IF pos <= Len(packets[k].messages) THEN k
    ELSE PacketOfPosition(packets, pos - Len(packets[k].messages), k + 1)

\* The mutant: the flush leaves the queue as it was (line 141 missing).
FlushMessagesKeepingQueue ==
    /\ IF Len(m_outboundUnreliables) = 0
         THEN UNCHANGED sendVars
         ELSE /\ handed' = FlushPackets(m_outboundUnreliables)
              /\ m_sendTimer' = 0
              /\ UNCHANGED <<queueVars, watch>>

FlushMessages ==
    /\ IF Len(m_outboundUnreliables) = 0
         THEN UNCHANGED sendVars
         ELSE
           LET packets == FlushPackets(m_outboundUnreliables)
           IN  /\ handed' = packets
               /\ m_sendTimer' = 0
               /\ m_outboundUnreliables' = <<>>
               /\ watch' =
                    CASE watch.status = "queued" ->
                           [watch EXCEPT !.status = "packed", !.pos = 0,
                              !.age = Len(packets)
                                      - PacketOfPosition(packets, watch.pos, 1)]
                      [] watch.status = "packed" ->
                           [watch EXCEPT !.age = @ + Len(packets)]
                      [] OTHER -> watch
               /\ UNCHANGED <<m_unsentReliables, m_unconfirmedReliables>>

\* The bulk runs: up to MaxBulkQueue reliable messages without payload are
\* queued by Send, then flushed once.
MaxBulkQueue == U8

BulkMessage == NetMessage(1, TRUE, 0)

SendBulk ==
    /\ handed = <<>>
    /\ Len(m_outboundUnreliables) < MaxBulkQueue
    /\ PushBack(BulkMessage)

FlushBulk ==
    /\ handed = <<>>
    /\ FlushMessages

\* The messages of the aging runs: small ones, reliable and unreliable.
AgingMessages == {NetMessage(1, r, 10) : r \in BOOLEAN}

(***************************************************************************)
(* Sequence channels (NetSequenceChannel, NetConnection's in-order traffic)*)
(***************************************************************************)
\* The channels the model runs (of MAX_SEQUENCE_CHANNELS).
NumChannels == 2

\* The sender emitted sequence numbers 0 .. MaxSequence - 1 on each channel.
MaxSequence == 3

\* Arrivals per run.
MaxArrivals == 5

Channels == 0..(NumChannels - 1)

\* An in-order message as the channel sees it.
InOrderMessage(channel, sequenceID) ==
    [sequenceChannelID |-> channel, sequenceID |-> sequenceID]

\* a is before b in the wrapping 16-bit order.
CycleLess(a, b) == a # b /\ (b - a + U16) % U16 < U16 \div 2

NewSequenceChannel == [m_nextSequenceExpected |-> 0, m_outOfOrderMessages |-> <<>>]

GetSequenceChannelShared(sequenceChannelID) == m_sequenceChannels[0]

GetSequenceChannel(sequenceChannelID) == m_sequenceChannels[sequenceChannelID]

IsNextInSequenceLoose(channel, msg) ==
    ~CycleLess(msg.sequenceID, channel.m_nextSequenceExpected)

\* NetSequenceChannel::IsNextInSequence.
IsNextInSequence(channel, msg) ==
    msg.sequenceID = channel.m_nextSequenceExpected

\* NetConnection::IsNextMessageInSequence.
IsNextMessageInSequence(msg) ==
    IsNextInSequence(GetSequenceChannel(msg.sequenceChannelID), msg)

\* NetSequenceChannel::Advance: the expected number wraps at 16 bits.
Advance(channel) ==
    [channel EXCEPT !.m_nextSequenceExpected = (@ + 1) % U16]

\* NetConnection::QueueInOrderMessage: hold the message back.
QueueInOrderMessage(channel, msg) ==
    [channel EXCEPT !.m_outOfOrderMessages = Append(@, msg)]

RemoveAt(seq, i) == SubSeq(seq, 1, i - 1) \o SubSeq(seq, i + 1, Len(seq))

\* The mutant: held messages are left waiting after a delivery.
DrainNothing(channel, out) == <<channel, out>>

\* After a delivery: hand over every held message that has become next.
\* Returns <<channel, the sequence numbers delivered>>.
RECURSIVE DrainChannel(_, _)
DrainChannel(channel, out) ==
    LET held == channel.m_outOfOrderMessages
        ready == {i \in 1..Len(held) : IsNextInSequence(channel, held[i])}
    IN  IF ready = {} THEN <<channel, out>>
        ELSE LET i == CHOOSE k \in ready : \A l \in ready : k <= l
             IN  DrainChannel(
                   Advance([channel EXCEPT !.m_outOfOrderMessages = RemoveAt(held, i)]),
                   Append(out, held[i].sequenceID))

\* One in-order message reaches the connection: the next expected one is
\* delivered (and whatever it unblocks); an earlier one is a duplicate and
\* dropped; a later one waits for its predecessors.
ProcessInOrderMessage(msg) ==
    LET c == msg.sequenceChannelID
        channel == GetSequenceChannel(c)
    IN  /\ Len(arrivalLog) < MaxArrivals
        /\ arrivalLog' = Append(arrivalLog, msg)
        /\ IF IsNextMessageInSequence(msg)
             THEN LET r == DrainChannel(Advance(channel), <<msg.sequenceID>>)
                  IN  /\ m_sequenceChannels' = [m_sequenceChannels EXCEPT ![c] = r[1]]
                      /\ delivered' = [delivered EXCEPT ![c] = @ \o r[2]]
             ELSE IF CycleLess(msg.sequenceID, channel.m_nextSequenceExpected)
             THEN UNCHANGED <<m_sequenceChannels, delivered>>
             ELSE /\ m_sequenceChannels' =
                       [m_sequenceChannels EXCEPT ![c] = QueueInOrderMessage(channel, msg)]
                  /\ UNCHANGED delivered

InitSeq ==
    /\ m_sequenceChannels = [c \in Channels |-> NewSequenceChannel]
    /\ delivered = [c \in Channels |-> <<>>]
    /\ arrivalLog = <<>>

(***************************************************************************)
(* Reliable-ID history (duplicates from retransmission)                    *)
(***************************************************************************)
\* The peer assigned reliable IDs 0 .. MaxReliableID - 1.
MaxReliableID == 4

HasReliableIDNever(reliableID) == FALSE

\* NetConnection::HasReliableIDAlreadyBeenReceived.
HasReliableIDAlreadyBeenReceived(reliableID) ==
    \E i \in 1..Len(m_receivedReliableIDs) : m_receivedReliableIDs[i] = reliableID

\* NetConnection::AddProcessedReliableID.
AddProcessedReliableID(reliableID) == Append(m_receivedReliableIDs, reliableID)

\* A reliable message arrives: a repeated ID is discarded, a new one is
\* recorded and handed on.
ProcessReliableMessage(reliableID) ==
    /\ lastDuplicate' = [id |-> reliableID,
                         known |-> HasReliableIDAlreadyBeenReceived(reliableID)]
    /\ IF HasReliableIDAlreadyBeenReceived(reliableID)
         THEN UNCHANGED <<m_receivedReliableIDs, processedLog>>
         ELSE /\ m_receivedReliableIDs' = AddProcessedReliableID(reliableID)
              /\ processedLog' = Append(processedLog, reliableID)

InitDedupe ==
    /\ m_receivedReliableIDs = <<>>
    /\ processedLog = <<>>
    /\ lastDuplicate = [id |-> INVALID_PACKET_ACK, known |-> FALSE]

(***************************************************************************)
(* Receive-side ack bookkeeping (NetConnection::OnPacketReceived)          *)
(***************************************************************************)
\* Bit i of a 16-bit field.
Bit(field, i) == (field \div (2 ^ i)) % 2

SetBit(field, i) == IF Bit(field, i) = 1 THEN field ELSE field + 2 ^ i

\* A 16-bit field shifted left; the bits shifted past bit 15 are lost.
ShiftLeft16(field, n) == IF n >= 16 THEN 0 ELSE (field * (2 ^ n)) % U16

\* The width of the received-history bitfield.
HISTORY_BITS == 16

UpdateReceivedAckAdding(highest, bitfield, packetAck) ==
    IF CycleLess(highest, packetAck)
      THEN <<packetAck,
             SetBit(ShiftLeft16(bitfield, (packetAck - highest + U16) % U16), 0)>>
      ELSE LET distance == (highest - packetAck + U16) % U16
           IN  IF distance < HISTORY_BITS
                 THEN <<highest, (bitfield + 2 ^ distance) % U16>>
                 ELSE <<highest, bitfield>>

\* The first half of OnPacketReceived: a newer ack shifts the bitfield by the
\* gap and sets bit 0; an older one within the window sets its bit.
\* Returns <<m_highestReceivedAck, m_receivedBitfield>>.
UpdateReceivedAck(highest, bitfield, packetAck) ==
    IF CycleLess(highest, packetAck)
      THEN <<packetAck,
             SetBit(ShiftLeft16(bitfield, (packetAck - highest + U16) % U16), 0)>>
      ELSE LET distance == (highest - packetAck + U16) % U16
           IN  IF distance < HISTORY_BITS
                 THEN <<highest, SetBit(bitfield, distance)>>
                 ELSE <<highest, bitfield>>

InitRecv ==
    /\ m_highestReceivedAck = INVALID_PACKET_ACK
    /\ m_receivedBitfield = 0
    /\ receivedAcks = {}
    /\ receivedPackets = {}
    /\ lastRecv = [header |-> DefaultPacketHeader, repeat |-> FALSE,
                   highest |-> INVALID_PACKET_ACK, bitfield |-> 0,
                   active |-> {}]

(***************************************************************************)
(* Packet trackers (PacketTracker_t, NetConnection's tracker ring)         *)
(***************************************************************************)
\* A PacketTracker_t with its default member initialisers. The ID array is
\* kept as long as its highest index ever written.
NewPacketTracker ==
    [packetAck |-> INVALID_PACKET_ACK, timeSent |-> -1,
     m_sentReliableIDs |-> <<>>, m_reliablesInPacket |-> 0]

AddReliableIDUnchecked(tracker, reliableID) ==
    <<[tracker EXCEPT
         !.m_sentReliableIDs =
             StoreAt(@, tracker.m_reliablesInPacket, <<reliableID>>),
         !.m_reliablesInPacket = @ + 1],
      TRUE>>

\* PacketTracker_t::AddReliableID: <<tracker, success>>.
AddReliableID(tracker, reliableID) ==
    IF tracker.m_reliablesInPacket = MAX_RELIABLES_PER_PACKET
      THEN <<tracker, FALSE>>
      ELSE <<[tracker EXCEPT
                !.m_sentReliableIDs =
                    StoreAt(@, tracker.m_reliablesInPacket, <<reliableID>>),
                !.m_reliablesInPacket = @ + 1],
             TRUE>>

ClearKeepsAck(tracker) ==
    [tracker EXCEPT !.timeSent = -1, !.m_reliablesInPacket = 0]

\* PacketTracker_t::Clear.
Clear(tracker) ==
    [tracker EXCEPT !.packetAck = INVALID_PACKET_ACK, !.timeSent = -1,
                    !.m_reliablesInPacket = 0]

SlotOf(ack) == ack % MAX_UNACKED_HISTORY

\* The reliable IDs a tracker records.
TrackedIDs(tracker) ==
    SubSeq(tracker.m_sentReliableIDs, 1, tracker.m_reliablesInPacket)

\* The connection as the tracker operations see it.
TrackedConnection ==
    [trackers |-> m_packetTrackers, unconfirmed |-> m_unconfirmedReliables,
     rtt |-> m_rtt, freed |-> freedLog]

\* The mutant: the new tracker is installed one slot further on.
CreateTrackerForAckNextSlot(trackers, ack, time) ==
    [trackers EXCEPT ![SlotOf(ack + 1)] =
        [Clear(@) EXCEPT !.packetAck = ack, !.timeSent = time]]

\* CreateTrackerForAck: a fresh active tracker takes the ack's slot.
CreateTrackerForAck(trackers, ack, time) ==
    [trackers EXCEPT ![SlotOf(ack)] =
        [Clear(@) EXCEPT !.packetAck = ack, !.timeSent = time]]

\* The mutant: any active tracker in the ack's slot is taken for the ack's.
GetTrackerForAckBySlot(trackers, ack) ==
    IF ack # INVALID_PACKET_ACK
         /\ trackers[SlotOf(ack)].packetAck # INVALID_PACKET_ACK
      THEN SlotOf(ack) ELSE -1

\* GetTrackerForAck: the slot holding the ack's tracker, or -1 for none.
GetTrackerForAck(trackers, ack) ==
    IF ack # INVALID_PACKET_ACK /\ trackers[SlotOf(ack)].packetAck = ack
      THEN SlotOf(ack) ELSE -1

\* InvalidateTracker.
InvalidateTracker(trackers, ack) ==
    [trackers EXCEPT ![SlotOf(ack)] = Clear(@)]

\* The round-trip time in hundredths of a clock tick, blended with a sample
\* given in ticks: rtt * (1 - 0.01) + sample * 0.01.
BlendRTT(rtt, sample) == (rtt * 99) \div 100 + sample

RECURSIVE ConfirmReliablesEvery(_, _, _)
ConfirmReliablesEvery(unconfirmed, ids, freed) ==
    IF unconfirmed = <<>> THEN <<unconfirmed, freed>>
    ELSE ConfirmReliablesEvery(Tail(unconfirmed), ids,
                               Append(freed, unconfirmed[1].reliableID))

\* Removes the messages with the given reliable IDs from the unconfirmed
\* set: <<the set afterwards, the IDs of the messages freed>>.
RECURSIVE ConfirmReliables(_, _, _)
ConfirmReliables(unconfirmed, ids, freed) ==
    IF ids = <<>> THEN <<unconfirmed, freed>>
    ELSE LET hits == {i \in 1..Len(unconfirmed) :
                        unconfirmed[i].reliableID = ids[1]}
         IN  IF hits = {} THEN ConfirmReliables(unconfirmed, Tail(ids), freed)
             ELSE LET i == CHOOSE k \in hits : \A l \in hits : k <= l
                  IN  ConfirmReliables(RemoveAt(unconfirmed, i), Tail(ids),
                                       Append(freed, ids[1]))

\* OnAckConfirmed on a connection record: with the ack's tracker found,
\* blend the round trip, confirm and free what the tracker recorded, and
\* invalidate the tracker; without one, nothing.
OnAckConfirmed(conn, ack, time) ==
    LET slot == GetTrackerForAck(conn.trackers, ack)
    IN  IF slot = -1 THEN conn
        ELSE LET tracker == conn.trackers[slot]
                 r == ConfirmReliables(conn.unconfirmed, TrackedIDs(tracker),
                                       conn.freed)
             IN  [trackers |-> InvalidateTracker(conn.trackers, ack),
                  unconfirmed |-> r[1],
                  rtt |-> BlendRTT(conn.rtt, time - tracker.timeSent),
                  freed |-> r[2]]

\* Packets the tracker runs send, reliable IDs they assign, new reliable
\* messages per packet, and clock ticks.
MaxTrackedPackets == 3

MaxReliableIDsSent == 2

MaxNewPerPacket == 1

MaxTime == 1

ReliableMessage(reliableID) ==
    [NetMessage(1, TRUE, 10) EXCEPT !.reliableID = reliableID]

RECURSIVE AddReliableIDs(_, _)
AddReliableIDs(tracker, ids) ==
    IF ids = <<>> THEN tracker
    ELSE AddReliableIDs(AddReliableID(tracker, ids[1])[1], Tail(ids))

\* A packet goes out (CreateHeaderForNextSend, OnPacketSend): it takes the
\* next ack, carries newCount new reliable messages and, with resend, every
\* reliable message still unconfirmed; its tracker records their IDs and the
\* new messages join the unconfirmed set.
SendReliablePacket(newCount, resend) ==
    LET ack == m_nextAckToSend
        newIDs == [k \in 1..newCount |-> (m_nextReliableIDToSend + k - 1) % U16]
        oldIDs == IF resend
                    THEN [k \in 1..Len(m_unconfirmedReliables) |->
                            m_unconfirmedReliables[k].reliableID]
                    ELSE <<>>
        created == CreateTrackerForAck(m_packetTrackers, ack, now)
    IN  /\ m_nextAckToSend < MaxTrackedPackets
        /\ m_nextReliableIDToSend + newCount <= MaxReliableIDsSent
        /\ m_packetTrackers' =
              [created EXCEPT ![SlotOf(ack)] = AddReliableIDs(@, oldIDs \o newIDs)]
        /\ m_unconfirmedReliables' =
              m_unconfirmedReliables \o [k \in 1..newCount |-> ReliableMessage(newIDs[k])]
        /\ m_nextAckToSend' = (ack + 1) % U16
        /\ m_nextReliableIDToSend' = (m_nextReliableIDToSend + newCount) % U16
        /\ UNCHANGED <<m_rtt, now, freedLog, lastConfirmed>>
        /\ UNCHANGED <<m_outboundUnreliables, m_unsentReliables, handed, watch,
                       m_sendTimer>>

Tick ==
    /\ now < MaxTime
    /\ now' = now + 1
    /\ UNCHANGED <<m_packetTrackers, m_nextAckToSend, m_nextReliableIDToSend,
                   m_rtt, freedLog, lastConfirmed>>
    /\ UNCHANGED sendVars

AcksMarkedFromPrevious(header, i) ==
    [k \in 1..Cardinality({j \in i..(HISTORY_BITS - 1) :
                             Bit(header.receivedHistory, j) = 1}) |->
        (header.highestReceivedAck - 1 + U16) % U16]

\* The acks a header's history marks as received, from bit i upwards: bit j
\* stands for the ack j before header.highestReceivedAck.
RECURSIVE AcksMarked(_, _)
AcksMarked(header, i) ==
    IF i >= HISTORY_BITS THEN <<>>
    ELSE (IF Bit(header.receivedHistory, i) = 1
            THEN <<(header.highestReceivedAck - i + U16) % U16>> ELSE <<>>)
           \o AcksMarked(header, i + 1)

RECURSIVE ConfirmAll(_, _, _)
ConfirmAll(conn, acks, time) ==
    IF acks = <<>> THEN conn
    ELSE ConfirmAll(OnAckConfirmed(conn, acks[1], time), Tail(acks), time)

\* The acks whose trackers are active.
ActiveAcks(trackers) ==
    {trackers[slot].packetAck : slot \in DOMAIN trackers} \ {INVALID_PACKET_ACK}

Range(seq) == {seq[i] : i \in 1..Len(seq)}

\* OnPacketReceived: note the packet's ack, then confirm every ack the
\* sender's history marks.
OnPacketReceived(header) ==
    LET r == UpdateReceivedAck(m_highestReceivedAck, m_receivedBitfield,
                               header.packetAck)
        acks == IF header.highestReceivedAck = INVALID_PACKET_ACK THEN <<>>
                ELSE AcksMarked(header, 0)
    IN  \E conn \in {ConfirmAll(TrackedConnection, acks, now)} :
        /\ m_highestReceivedAck' = r[1]
        /\ m_receivedBitfield' = r[2]
        /\ receivedAcks' = receivedAcks \cup {header.packetAck}
        /\ lastRecv' = [header |-> header,
                        repeat |-> header.packetAck \in receivedAcks,
                        highest |-> m_highestReceivedAck,
                        bitfield |-> m_receivedBitfield,
                        active |-> ActiveAcks(m_packetTrackers)]
        /\ m_packetTrackers' = conn.trackers
        /\ m_unconfirmedReliables' = conn.unconfirmed
        /\ m_rtt' = conn.rtt
        /\ freedLog' = conn.freed
        /\ lastConfirmed' = Range(acks)
        /\ UNCHANGED <<m_nextAckToSend, m_nextReliableIDToSend, now>>
        /\ UNCHANGED <<m_outboundUnreliables, m_unsentReliables, handed, watch,
                       m_sendTimer>>

InitTrack ==
    /\ m_packetTrackers = [slot \in 0..(MAX_UNACKED_HISTORY - 1) |-> NewPacketTracker]
    /\ m_nextAckToSend = 0
    /\ m_nextReliableIDToSend = 0
    /\ m_rtt = 0
    /\ now = 0
    /\ freedLog = <<>>
    /\ lastConfirmed = {}

\* The peer's packets of the bookkeeping runs, by running number: the
\* first ones, gaps below and above the 16-bit window, long losses up to the
\* 16-bit wrap of the ack, and packets behind the wrap.
PeerPackets == {0, 1, 9, 30, 30000, 60000, 65530, 65534, 65539, 65540}

AckOf(packetNumber) == packetNumber % U16

SetMax(S) == CHOOSE x \in S : \A y \in S : y <= x

\* Serial-number arithmetic tells old from new only within half the ack
\* range: the network delivers no packet further than that from the newest
\* one received (from the start, before anything was received).
WithinHalfRange(packetNumber) ==
    LET newest == IF receivedPackets = {} THEN -1 ELSE SetMax(receivedPackets)
    IN  /\ packetNumber - newest < U16 \div 2
        /\ newest - packetNumber < U16 \div 2

\* A packet of the peer arrives (again, or out of order, or after losses).
ReceivePeerPacket(packetNumber) ==
    /\ WithinHalfRange(packetNumber)
    /\ OnPacketReceived([DefaultPacketHeader EXCEPT
                            !.packetAck = AckOf(packetNumber)])
    /\ receivedPackets' = receivedPackets \cup {packetNumber}

\* The headers of the tracker runs: what the peer reports as received.
HistoryPatterns == {0, 1, 6}

ReportedAcks ==
    (0..(MaxTrackedPackets - 1)) \cup {MAX_UNACKED_HISTORY, INVALID_PACKET_ACK}

AckHeaders ==
    {[DefaultPacketHeader EXCEPT !.packetAck = 0, !.highestReceivedAck = h,
                                 !.receivedHistory = b] :
        h \in ReportedAcks, b \in HistoryPatterns}

(***************************************************************************)
(* The codec at work: headers written and read back, packets received      *)
(***************************************************************************)
\* Field values of the headers written: the ends of each range, the ack
\* before and after its wrap, and values whose two bytes differ.
ConnectionIndices == {0, 1, INVALID_CONNECTION_INDEX}

PacketAcks == {0, 1, 256, 4660, INVALID_PACKET_ACK}

Histories == {0, 65280, 43981}

HighestAcks == {0, 258, INVALID_PACKET_ACK}

MessageCounts == {0, 3, U8 - 1}

Headers ==
    {[senderConnectionIndex |-> c, packetAck |-> a, receivedHistory |-> b,
      highestReceivedAck |-> h, totalMessageCount |-> n] :
        c \in ConnectionIndices, a \in PacketAcks, b \in Histories,
        h \in HighestAcks, n \in MessageCounts}

Endiannesses == {LITTLE_ENDIAN, BIG_ENDIAN}

NoHeaderRead ==
    [done |-> FALSE, ok |-> FALSE, header |-> DefaultPacketHeader, consumed |-> 0]

\* A packet is put together: room for the header, the messages behind it,
\* then the header at the front.
RECURSIVE WriteMessages(_, _)
WriteMessages(packet, messages) ==
    IF messages = <<>> THEN packet
    ELSE WriteMessages(WriteMessage(packet, messages[1]), Tail(messages))

BuildPacket(header, messages, endianness) ==
    WriteHeader(
        WriteMessages(AdvanceWriteHead(NewNetPacket(endianness),
                                       PACKET_HEADER_SIZE), messages),
        header)

\* WriteHeader on a fresh packet, with or without a message behind the
\* header.
EncodeHeader(header, messages, endianness) ==
    /\ wire.packet.m_writeHead = 0
    /\ wire' = [packet |-> BuildPacket(header, messages, endianness),
                header |-> header]
    /\ headerRead' = NoHeaderRead
    /\ UNCHANGED lastDecode

\* ReadHeader on the packet written.
DecodeHeader ==
    /\ wire.packet.m_writeHead > 0
    /\ ~headerRead.done
    /\ LET r == ReadHeader(wire.packet)
       IN  /\ headerRead' = [done |-> TRUE, ok |-> r[2], header |-> r[3],
                             consumed |-> r[1].m_readHead - wire.packet.m_readHead]
           /\ wire' = [wire EXCEPT !.packet = r[1]]
    /\ UNCHANGED lastDecode

\* The packet the receiver holds for `count` bytes of a datagram.
ReceivedPacket(bytes, count, endianness) ==
    [NewNetPacket(endianness) EXCEPT !.m_buffer = SubSeq(bytes, 1, count),
                                     !.m_writeHead = count]

\* Reads `count` messages: <<packet, success, messages>>; stops at the first
\* message that cannot be read.
RECURSIVE ReadMessages(_, _, _)
ReadMessages(packet, count, messages) ==
    IF count = 0 THEN <<packet, TRUE, messages>>
    ELSE LET r == ReadMessage(packet)
         IN  IF ~r[2] THEN <<r[1], FALSE, messages>>
             ELSE ReadMessages(r[1], count - 1, Append(messages, r[3]))

\* Decoding a received packet: the header, then as many messages as it
\* declares: <<packet, success, header, messages>>.
DecodePacket(packet) ==
    LET h == ReadHeader(packet)
    IN  IF ~h[2] THEN <<h[1], FALSE, h[3], <<>> >>
        ELSE LET m == ReadMessages(h[1], h[3].totalMessageCount, <<>>)
             IN  <<m[1], m[2], h[3], m[3]>>

\* The number of messages whose framed bytes lie within the first `count`
\* bytes of a packet built from them.
RECURSIVE PresentIn(_, _, _)
PresentIn(messages, offset, count) ==
    IF messages = <<>> THEN 0
    ELSE LET end == offset + MESSAGE_FRAMING_BYTES + messages[1].m_writeHead
         IN  IF end > count THEN 0
             ELSE 1 + PresentIn(Tail(messages), end, count)

\* The byte order the session's packets are made with.
SessionEndianness == LITTLE_ENDIAN

\* The connection's state a received packet can touch.
ConnectionState ==
    <<m_highestReceivedAck, m_receivedBitfield, m_packetTrackers,
      m_unconfirmedReliables, m_rtt, m_nextAckToSend, m_nextReliableIDToSend>>

\* A datagram arrives: the packet is decoded as a whole; only when all of it
\* decodes does the connection take note of it and the application get its
\* messages. Otherwise the packet is dropped.
ProcessIncomingPacket(header, messages, count) ==
    \E built \in {BuildPacket(header, messages, SessionEndianness)} :
      /\ count <= built.m_writeHead
      /\ \E r \in {DecodePacket(ReceivedPacket(built.m_buffer, count,
                                               SessionEndianness))} :
           /\ lastDecode' =
                 [declared |-> header.totalMessageCount,
                  present |-> PresentIn(messages, PACKET_HEADER_SIZE, count),
                  received |-> count,
                  ok |-> r[2],
                  readHead |-> r[1].m_readHead,
                  delivered |-> IF r[2] THEN r[4] ELSE <<>>,
                  before |-> ConnectionState,
                  afterFailure |-> lastDecode.received >= 0 /\ ~lastDecode.ok]
           /\ IF r[2]
                THEN OnPacketReceived(r[3])
                ELSE UNCHANGED <<sendVars, trackVars, m_highestReceivedAck,
                                 m_receivedBitfield, receivedAcks, lastRecv>>
      /\ UNCHANGED <<wire, headerRead, receivedPackets>>

InitCodec ==
    /\ wire = [packet |-> NewNetPacket(LITTLE_ENDIAN), header |-> DefaultPacketHeader]
    /\ headerRead = NoHeaderRead
    /\ lastDecode = [declared |-> 0, present |-> 0, received |-> -1, ok |-> FALSE,
                     readHead |-> 0, delivered |-> <<>>,
                     before |-> <<>>, afterFailure |-> FALSE]

\* The received packets: the first messages of a run of MaxMessages whose
\* payloads grow from 0 to MaxPayload bytes, a declared count around the
\* number present, cut at any byte.
MaxMessages == 3

MaxPayload == 2

ReceivedMessages ==
    {[k \in 1..n |-> NetMessage(2, FALSE, (k - 1) % (MaxPayload + 1))] :
        n \in 0..MaxMessages}

ReceivedHeaders ==
    {[senderConnectionIndex |-> 1, packetAck |-> 1, receivedHistory |-> 0,
      highestReceivedAck |-> INVALID_PACKET_ACK, totalMessageCount |-> n] :
        n \in 0..MaxMessages}

(***************************************************************************)
(* A PacketTracker_t on its own                                            *)
(***************************************************************************)
\* AddReliableID calls per run beyond MAX_RELIABLES_PER_PACKET, and Clear
\* calls per run.
ExtraAddCalls == 3

MaxClearCalls == 2

MaxAddCalls == MAX_RELIABLES_PER_PACKET + ExtraAddCalls

\* The caller offers consecutive reliable IDs; the first one is chosen so
\* that they wrap at 16 bits within one packet.
FirstOfferedID == U16 - MAX_RELIABLES_PER_PACKET \div 2

NoAdd == [called |-> FALSE, result |-> FALSE, before |-> NewPacketTracker,
          reliableID |-> 0, nth |-> 0]

\* One call of AddReliableID with the next reliable ID.
TrackerAdd ==
    /\ nextOffered < MaxAddCalls
    /\ LET reliableID == (FirstOfferedID + nextOffered) % U16
           r == AddReliableID(unitTracker, reliableID)
       IN  /\ unitTracker' = r[1]
           /\ lastAdd' = [called |-> TRUE, result |-> r[2], before |-> unitTracker,
                          reliableID |-> reliableID, nth |-> lastAdd.nth + 1]
    /\ nextOffered' = nextOffered + 1
    /\ UNCHANGED clearCalls

\* One call of Clear.
TrackerClear ==
    /\ clearCalls < MaxClearCalls
    /\ unitTracker' = Clear(unitTracker)
    /\ lastAdd' = NoAdd
    /\ clearCalls' = clearCalls + 1
    /\ UNCHANGED nextOffered

InitUnit ==
    /\ unitTracker = NewPacketTracker
    /\ lastAdd = NoAdd
    /\ nextOffered = 0
    /\ clearCalls = 0

(***************************************************************************)
(* In-order messages on the send path                                      *)
(***************************************************************************)
\* In-order messages passed to Send per channel and run.
MaxInOrderSends == 2

\* An in-order message as the application passes it to Send: its channel,
\* and the sequence number it was constructed with.
InOrderSendMessage(channel, reliable) ==
    [definitionIndex |-> 1, reliable |-> reliable, reliableID |-> 0,
     m_writeHead |-> 10, sequenceChannelID |-> channel, sequenceID |-> 0]

\* Send of an in-order message on the given channel.
SendInOrder(channel, reliable) ==
    /\ sendCount[channel] < MaxInOrderSends
    /\ Send(InOrderSendMessage(channel, reliable))
    /\ sendCount' = [sendCount EXCEPT ![channel] = @ + 1]

InitOrder == sendCount = [c \in Channels |-> 0]

(***************************************************************************)
(* The net tick (NetConnection::IsReadyToFlush)                            *)
(***************************************************************************)
\* Time is counted in ticks, TicksPerSecond to the second; the send timer
\* runs up to MaxElapsed ticks.
TicksPerSecond == 60

MaxElapsed == 7

\* The tick rates set, in hertz: their intervals are whole ticks.
TickRates == {10, 20, 30, 60}

MaxFloat(a, b) == IF a > b THEN a ELSE b

\* NetConnection::SetNetTickRate.
SetNetTickRate(hertz) ==
    /\ m_timeBetweenSends' = TicksPerSecond \div hertz
    /\ UNCHANGED <<sessionTimeBetweenSends, m_forceSendNextTick, lastFlush>>

\* The session's tick rate is set; GetTimeBetweenSends returns its interval.
SetSessionNetTickRate(hertz) ==
    /\ sessionTimeBetweenSends' = TicksPerSecond \div hertz
    /\ UNCHANGED <<m_timeBetweenSends, m_forceSendNextTick, lastFlush>>

\* The connection is told to send on the next tick whatever the timer says.
ForceSendNextTick ==
    /\ ~m_forceSendNextTick
    /\ m_forceSendNextTick' = TRUE
    /\ UNCHANGED <<sessionTimeBetweenSends, m_timeBetweenSends, lastFlush>>

\* Time passes on the send timer.
AdvanceSendTimer ==
    /\ m_sendTimer < MaxElapsed
    /\ m_sendTimer' = m_sendTimer + 1
    /\ UNCHANGED <<queueVars, handed, watch>>

NeedsToForceSend == m_forceSendNextTick

\* NetConnection::IsReadyToFlush.
IsReadyToFlush ==
    LET sessionTime == sessionTimeBetweenSends
        sendInterval == MaxFloat(sessionTime, m_timeBetweenSends)
    IN  m_sendTimer > sendInterval

NoFlush ==
    [called |-> FALSE, forced |-> FALSE, queuesEmpty |-> FALSE,
     handed |-> <<>>, forcedAfter |-> FALSE]

\* FlushMessages on the net tick: the flush itself, which reads and writes
\* neither the tick intervals nor m_forceSendNextTick, and its record.
FlushOnTick ==
    /\ FlushMessages
    /\ UNCHANGED <<sessionTimeBetweenSends, m_timeBetweenSends,
                   m_forceSendNextTick>>
    /\ lastFlush' =
         [called |-> TRUE,
          forced |-> NeedsToForceSend,
          queuesEmpty |-> /\ Len(m_outboundUnreliables) = 0
                          /\ Len(m_unsentReliables) = 0
                          /\ Len(m_unconfirmedReliables) = 0,
          handed |-> IF Len(m_outboundUnreliables) = 0 THEN <<>> ELSE handed',
          forcedAfter |-> m_forceSendNextTick']

InitTick ==
    /\ sessionTimeBetweenSends = 0
    /\ m_timeBetweenSends = 0
    /\ m_forceSendNextTick = FALSE
    /\ lastFlush = NoFlush

(***************************************************************************)
(* Ownership of the NetMessage objects (NetConnection.cpp)                 *)
(***************************************************************************)
\* The messages allocated in one run.
MaxPointers == 4

\* Send with the caller's newly allocated message.
SendOwned(msg) ==
    /\ ~destroyed
    /\ allocated < MaxPointers
    /\ Send(msg)
    /\ allocated' = allocated + 1
    /\ heldPointers' =
          [heldPointers EXCEPT !.unreliable = Append(@, allocated + 1)]
    /\ UNCHANGED <<freedPointers, destroyed>>

\* FlushMessages: every message of the unreliable queue is deleted (line
\* 123); the queue's pointers go as the queue goes.
FlushOwned ==
    /\ ~destroyed
    /\ FlushMessages
    /\ freedPointers' = freedPointers \cup Range(heldPointers.unreliable)
    /\ heldPointers' =
          [heldPointers EXCEPT
              !.unreliable = SubSeq(@, 1, Len(m_outboundUnreliables'))]
    /\ UNCHANGED <<allocated, destroyed>>

\* ~NetConnection: the pending messages of m_outboundUnreliables are
\* deleted and the queue cleared; the timers go.
DestroyConnection ==
    /\ ~destroyed
    /\ destroyed' = TRUE
    /\ freedPointers' = freedPointers \cup Range(heldPointers.unreliable)
    /\ heldPointers' = [heldPointers EXCEPT !.unreliable = <<>>]
    /\ m_outboundUnreliables' = <<>>
    /\ UNCHANGED <<m_unsentReliables, m_unconfirmedReliables, handed, watch,
                   m_sendTimer, allocated>>

InitOwn ==
    /\ allocated = 0
    /\ heldPointers = [unreliable |-> <<>>, unsent |-> <<>>, unconfirmed |-> <<>>]
    /\ freedPointers = {}
    /\ destroyed = FALSE

(***************************************************************************)
(* A BytePacker in use (BytePacker.cpp)                                    *)
(***************************************************************************)
\* Calls per run, and the capacity the packer is constructed with.
MaxPackerCalls == 3

PackerCapacity == 2

\* Sizes written: one byte wide, the first two bytes wide, and more.
Sizes == {0, 1, 5, 127, 128, 300}

\* Strings and raw bytes written.
Strings == {<<>>, <<97>>, <<97, 98, 99>>}

ByteRuns == {<<5>>, <<128, 1>>}

\* Values an uninitialised byte can hold.
UninitialisedBytes == {0, 128}

\* One call of the packer that returned or did not, with its record.
PackerCall(op, in, after, out, returned) ==
    /\ ~packerHung
    /\ Len(packerLog) < MaxPackerCalls
    /\ packer' = after
    /\ packerHung' = ~returned
    /\ packerLog' = Append(packerLog, [op |-> op, in |-> in, out |-> out])

PackerWriteBytes(data) ==
    PackerCall("WriteBytes", data, WriteBytes(packer, data), Len(data), TRUE)

PackerWriteSize(size) ==
    \E r \in {WriteSize(packer, size)} :
        PackerCall("WriteSize", size, r[1], r[2], TRUE)

PackerWriteString(str) ==
    PackerCall("WriteString", str, WriteString(packer, str), TRUE, TRUE)

PackerReadBytes(maxByteCount) ==
    \E r \in {ReadBytes(packer, maxByteCount)} :
        PackerCall("ReadBytes", maxByteCount, r[1], r[2], TRUE)

PackerReadSize(uninitialised) ==
    \E r \in {ReadSize(packer, uninitialised)} :
        PackerCall("ReadSize", 0, r.packer,
                   [size |-> r.size, bytesRead |-> r.bytesRead], r.returned)

PackerReadString(maxByteSize, uninitialised) ==
    \E r \in {ReadString(packer, maxByteSize, uninitialised)} :
        PackerCall("ReadString", maxByteSize, r.packer, r.str, r.returned)

PackerResetWrite ==
    PackerCall("ResetWrite", 0, ResetWrite(packer), 0, TRUE)

PackerResetRead ==
    PackerCall("ResetRead", 0, ResetRead(packer), 0, TRUE)

InitPacker ==
    /\ packer = NewBytePacker(PackerCapacity, LITTLE_ENDIAN)
    /\ packerHung = FALSE
    /\ packerLog = <<>>

(***************************************************************************)
(* RemoteCommandService (RemoteCommandService.cpp)                         *)
(***************************************************************************)
\* The sockets created in one run.
MaxSockets == 3

RCSStates ==
    {"STATE_INITIAL", "STATE_TRYTOJOINLOCAL", "STATE_TRYTOJOINADDRESS",
     "STATE_TRYTOHOST", "STATE_DELAY", "STATE_HOST", "STATE_CLIENT"}

\* A TCPSocket just connected or accepted, and the BytePacker made for it.
NewSocket == [socket |-> socketsCreated + 1, closed |-> FALSE]

NewBuffer == [socket |-> socketsCreated + 1]

\* What a call of Receive or Send on a socket can leave of it: an open
\* socket stays open or is closed by the call on finding the connection
\* lost; a closed socket stays closed.
AfterSocketCall(connection) ==
    IF connection.closed THEN {connection}
    ELSE {connection, [connection EXCEPT !.closed = TRUE]}

\* CloseAllConnections: both vectors end empty.
CloseAllConnections ==
    /\ m_connections' = <<>>
    /\ m_buffers' = <<>>

\* The mutant: closed connections are erased and their buffers are left.
RECURSIVE CleanUpKeepingBuffers(_, _, _)
CleanUpKeepingBuffers(connections, buffers, i) ==
    IF i < 1 THEN <<connections, buffers>>
    ELSE IF connections[i].closed
      THEN CleanUpKeepingBuffers(RemoveAt(connections, i), buffers, i - 1)
      ELSE CleanUpKeepingBuffers(connections, buffers, i - 1)

\* CleanUpClosedConnections, from index i (1-based) downwards.
RECURSIVE CleanUpClosedConnections(_, _, _)
CleanUpClosedConnections(connections, buffers, i) ==
    IF i < 1 THEN <<connections, buffers>>
    ELSE IF connections[i].closed
      THEN CleanUpClosedConnections(RemoveAt(connections, i),
                                    RemoveAt(buffers, i), i - 1)
      ELSE CleanUpClosedConnections(connections, buffers, i - 1)

\* ProcessAllConnections: what the Receive calls (and the echo sent back
\* for a command received) can leave of each connection.
ProcessAllConnections(connections) ==
    {after \in [1..Len(connections) -> [socket : 1..MaxSockets, closed : BOOLEAN]] :
        \A i \in 1..Len(connections) : after[i] \in AfterSocketCall(connections[i])}

\* The sockets ProcessAllConnections passes to ProcessConnection although
\* they were closed when the frame began.
ClosedAtFrameStart ==
    {m_connections[i].socket : i \in {k \in 1..Len(m_connections) :
                                         m_connections[k].closed}}

\* The mutant: a join request is not looked at; the service looks for a
\* local host.
Update_InitialLocalOnly ==
    /\ CloseAllConnections
    /\ m_state' = "STATE_TRYTOJOINLOCAL"
    /\ UNCHANGED <<m_joinRequestAddress, socketsCreated, lateProcessed>>

Update_Initial ==
    /\ CloseAllConnections
    /\ m_state' = IF m_joinRequestAddress THEN "STATE_TRYTOJOINADDRESS"
                   ELSE "STATE_TRYTOJOINLOCAL"
    /\ UNCHANGED <<m_joinRequestAddress, socketsCreated, lateProcessed>>

Update_TryToJoinLocal ==
    \/ /\ m_state' \in {"STATE_INITIAL", "STATE_TRYTOHOST"}
       /\ UNCHANGED <<m_joinRequestAddress, m_connections, m_buffers,
                      socketsCreated, lateProcessed>>
    \/ /\ socketsCreated < MaxSockets
       /\ m_connections' = Append(m_connections, NewSocket)
       /\ m_buffers' = Append(m_buffers, NewBuffer)
       /\ socketsCreated' = socketsCreated + 1
       /\ m_state' = "STATE_CLIENT"
       /\ UNCHANGED <<m_joinRequestAddress, lateProcessed>>

Update_TryToJoinAddress ==
    \/ /\ m_state' = "STATE_INITIAL"
       /\ m_joinRequestAddress' = FALSE
       /\ UNCHANGED <<m_connections, m_buffers, socketsCreated, lateProcessed>>
    \/ /\ socketsCreated < MaxSockets
       /\ m_connections' = Append(m_connections, NewSocket)
       /\ m_buffers' = Append(m_buffers, NewBuffer)
       /\ socketsCreated' = socketsCreated + 1
       /\ m_state' = "STATE_CLIENT"
       /\ m_joinRequestAddress' = FALSE
       /\ UNCHANGED lateProcessed

Update_TryToHost ==
    /\ m_state' \in {"STATE_DELAY", "STATE_HOST"}
    /\ UNCHANGED <<m_joinRequestAddress, m_connections, m_buffers,
                   socketsCreated, lateProcessed>>

Update_Delay ==
    /\ m_state' \in {"STATE_DELAY", "STATE_INITIAL"}
    /\ UNCHANGED <<m_joinRequestAddress, m_connections, m_buffers,
                   socketsCreated, lateProcessed>>

\* Update_Host: CheckForNewConnections, ProcessAllConnections,
\* CleanUpClosedConnections.
Update_Host ==
    /\ m_state' = IF m_joinRequestAddress THEN "STATE_INITIAL" ELSE m_state
    /\ \E accepted \in {a \in BOOLEAN : a => socketsCreated < MaxSockets} :
         LET connections == IF accepted THEN Append(m_connections, NewSocket)
                            ELSE m_connections
             buffers == IF accepted THEN Append(m_buffers, NewBuffer)
                        ELSE m_buffers
         IN  /\ socketsCreated' = socketsCreated + (IF accepted THEN 1 ELSE 0)
             /\ \E after \in ProcessAllConnections(connections) :
                  \E kept \in {CleanUpClosedConnections(after, buffers,
                                                         Len(after))} :
                      /\ m_connections' = kept[1]
                      /\ m_buffers' = kept[2]
    /\ lateProcessed' = lateProcessed \cup ClosedAtFrameStart
    /\ UNCHANGED m_joinRequestAddress

\* Update_Client: ProcessAllConnections, CleanUpClosedConnections.
Update_Client ==
    IF m_joinRequestAddress
      THEN /\ m_state' = "STATE_INITIAL"
           /\ UNCHANGED <<m_joinRequestAddress, m_connections, m_buffers,
                          socketsCreated, lateProcessed>>
      ELSE /\ \E after \in ProcessAllConnections(m_connections) :
                \E kept \in {CleanUpClosedConnections(after, m_buffers,
                                                       Len(after))} :
                    /\ m_connections' = kept[1]
                    /\ m_buffers' = kept[2]
                    /\ m_state' = IF Len(kept[1]) = 0 THEN "STATE_INITIAL"
                                   ELSE m_state
           /\ lateProcessed' = lateProcessed \cup ClosedAtFrameStart
           /\ UNCHANGED <<m_joinRequestAddress, socketsCreated>>

BeginFrame ==
    CASE m_state = "STATE_INITIAL" -> Update_Initial
      [] m_state = "STATE_TRYTOJOINLOCAL" -> Update_TryToJoinLocal
      [] m_state = "STATE_TRYTOJOINADDRESS" -> Update_TryToJoinAddress
      [] m_state = "STATE_TRYTOHOST" -> Update_TryToHost
      [] m_state = "STATE_DELAY" -> Update_Delay
      [] m_state = "STATE_HOST" -> Update_Host
      [] m_state = "STATE_CLIENT" -> Update_Client

\* RemoteCommandService::Send on the given connections: what it can leave
\* of them, what it returns, and the indices at which it accessed
\* m_connections. It refuses an index at or above the number of connections
\* and an empty message; with any other index it makes two Send calls on
\* m_connections[connectionIndex]. For a negative index that element lies
\* before the vector: the behaviour is undefined, the call may return
\* either value.
SendOutcomes(connections, messageSize, connectionIndex) ==
    IF connectionIndex >= Len(connections) \/ messageSize = 0
      THEN {[connections |-> connections, returned |-> FALSE,
             accessed |-> <<>>]}
      ELSE IF connectionIndex < 0
        THEN {[connections |-> connections, returned |-> returned,
               accessed |-> <<connectionIndex, connectionIndex>>] :
                 returned \in BOOLEAN}
        ELSE {[connections |->
                 [connections EXCEPT ![connectionIndex + 1] = after],
               returned |-> returned,
               accessed |-> <<connectionIndex, connectionIndex>>] :
                 after \in AfterSocketCall(connections[connectionIndex + 1]),
                 returned \in BOOLEAN}

NoSend ==
    [called |-> FALSE, messageSize |-> 0, connectionIndex |-> 0,
     connectionCount |-> 0, returned |-> FALSE, accessed |-> <<>>]

\* RemoteCommandService::Send, called between frames, with its record.
RCSSend(messageSize, connectionIndex) ==
    /\ \E out \in SendOutcomes(m_connections, messageSize, connectionIndex) :
         /\ m_connections' = out.connections
         /\ lastSend' =
               [called |-> TRUE, messageSize |-> messageSize,
                connectionIndex |-> connectionIndex,
                connectionCount |-> Len(m_connections),
                returned |-> out.returned, accessed |-> out.accessed]
    /\ UNCHANGED <<m_state, m_joinRequestAddress, m_buffers, socketsCreated,
                   lateProcessed, lastAll>>

\* Command_RemoteCommandBroadcast's loop from connectionIndex on: the
\* outcomes of the Send calls, each with the record of the sends so far.
RECURSIVE BroadcastLoop(_, _, _, _, _)
BroadcastLoop(connections, commandSize, connectionIndex, connectionCount, log) ==
    IF connectionIndex >= connectionCount
      THEN {[connections |-> connections, log |-> log]}
      ELSE UNION {BroadcastLoop(out.connections, commandSize,
                                connectionIndex + 1, connectionCount,
                                Append(log, [event |-> "send",
                                             index |-> connectionIndex,
                                             attempted |-> out.accessed # <<>>])) :
                    out \in SendOutcomes(connections, commandSize,
                                         connectionIndex)}

\* The mutant: the broadcast leaves out the first connection.
RemoteCommandBroadcastFromOne(connections, commandSize) ==
    IF commandSize = 0 THEN {[connections |-> connections, log |-> <<>>]}
    ELSE BroadcastLoop(connections, commandSize, 1, Len(connections), <<>>)

\* Command_RemoteCommandBroadcast.
RemoteCommandBroadcast(connections, commandSize) ==
    IF commandSize = 0 THEN {[connections |-> connections, log |-> <<>>]}
    ELSE BroadcastLoop(connections, commandSize, 0, Len(connections), <<>>)

NoAll == [called |-> FALSE, commandSize |-> 0, connectionCount |-> 0,
          log |-> <<>>]

\* Command_RemoteCommandAll: the broadcast, then, for a command that is not
\* empty, the one-second stall and Command::Run.
RemoteCommandAll(commandSize) ==
    /\ \E out \in RemoteCommandBroadcast(m_connections, commandSize) :
         /\ m_connections' = out.connections
         /\ lastAll' =
               [called |-> TRUE, commandSize |-> commandSize,
                connectionCount |-> Len(m_connections),
                log |-> IF commandSize = 0 THEN out.log
                        ELSE out.log \o <<[event |-> "stall"],
                                           [event |-> "run"]>>]
    /\ UNCHANGED <<m_state, m_joinRequestAddress, m_buffers, socketsCreated,
                   lateProcessed, lastSend>>

\* The lengths of the messages and commands given, and the connection
\* indices given (the rc command's i parameter is any int).
MessageSizes == {0, 1}

SendIndices == (-1)..MaxSockets

InitCmd ==
    /\ lastSend = NoSend
    /\ lastAll = NoAll

\* RemoteCommandService::Join.
Join ==
    /\ m_joinRequestAddress' = TRUE
    /\ UNCHANGED <<m_state, m_connections, m_buffers, socketsCreated,
                   lateProcessed>>

\* RemoteCommandService::Host.
Host ==
    /\ CloseAllConnections
    /\ m_joinRequestAddress' = FALSE
    /\ m_state' = "STATE_TRYTOHOST"
    /\ UNCHANGED <<socketsCreated, lateProcessed>>

InitRCS ==
    /\ m_state = "STATE_INITIAL"
    /\ m_joinRequestAddress = FALSE
    /\ m_connections = <<>>
    /\ m_buffers = <<>>
    /\ socketsCreated = 0
    /\ lateProcessed = {}

\* The loss counters' member initialisers.
InitLoss ==
    /\ m_packetsSent = 0
    /\ m_lossCount = 0

(***************************************************************************)
(* The heartbeat (NetConnection.cpp, Stopwatch)                            *)
(***************************************************************************)
\* The clock ticks of a heartbeat run.
MaxHeartbeatTime == 8

\* The heartbeat interval a connection starts with, in ticks.
InitialHeartbeatTicks == 2

\* A Stopwatch as constructed at the given time: no interval set.
NewStopwatch(time) == [start |-> time, interval |-> 0]

\* Stopwatch::SetInterval: the interval starts at the time of the call.
SetInterval(stopwatch, seconds, time) == [start |-> time, interval |-> seconds]

\* Stopwatch::HasIntervalElapsed.
HasIntervalElapsed(stopwatch, time) ==
    time - stopwatch.start >= stopwatch.interval

NoHeartbeatCall ==
    [called |-> FALSE, returned |-> FALSE, at |-> 0, sinceTrue |-> -1,
     interval |-> 0, before |-> NewStopwatch(0), after |-> NewStopwatch(0)]

\* NetConnection::SetHeartbeat.
SetHeartbeat(hertz) ==
    /\ m_timeBetweenHeartbeats' = TicksPerSecond \div hertz
    /\ m_heartbeatTimer' =
          SetInterval(m_heartbeatTimer, m_timeBetweenHeartbeats', heartbeatClock)
    /\ UNCHANGED <<heartbeatClock, lastHeartbeat, lastTrueAt>>

\* The mutant: the timer is left running when the interval is over.
HasHeartbeatElapsedNoRestart ==
    LET elapsed == HasIntervalElapsed(m_heartbeatTimer, heartbeatClock)
    IN  /\ m_heartbeatTimer' = m_heartbeatTimer
        /\ lastHeartbeat' =
              [called |-> TRUE, returned |-> elapsed, at |-> heartbeatClock,
               sinceTrue |-> IF lastTrueAt = -1 THEN -1
                             ELSE heartbeatClock - lastTrueAt,
               interval |-> m_timeBetweenHeartbeats,
               before |-> m_heartbeatTimer, after |-> m_heartbeatTimer']
        /\ lastTrueAt' = IF elapsed THEN heartbeatClock ELSE lastTrueAt
        /\ UNCHANGED <<m_timeBetweenHeartbeats, heartbeatClock>>

\* NetConnection::HasHeartbeatElapsed, with the record of the call.
HasHeartbeatElapsed ==
    LET elapsed == HasIntervalElapsed(m_heartbeatTimer, heartbeatClock)
    IN  /\ m_heartbeatTimer' =
              IF elapsed
                THEN SetInterval(m_heartbeatTimer, m_timeBetweenHeartbeats,
                                 heartbeatClock)
                ELSE m_heartbeatTimer
        /\ lastHeartbeat' =
              [called |-> TRUE, returned |-> elapsed, at |-> heartbeatClock,
               sinceTrue |-> IF lastTrueAt = -1 THEN -1
                             ELSE heartbeatClock - lastTrueAt,
               interval |-> m_timeBetweenHeartbeats,
               before |-> m_heartbeatTimer, after |-> m_heartbeatTimer']
        /\ lastTrueAt' = IF elapsed THEN heartbeatClock ELSE lastTrueAt
        /\ UNCHANGED <<m_timeBetweenHeartbeats, heartbeatClock>>

\* Time passes.
AdvanceHeartbeatClock ==
    /\ heartbeatClock < MaxHeartbeatTime
    /\ heartbeatClock' = heartbeatClock + 1
    /\ UNCHANGED <<m_timeBetweenHeartbeats, m_heartbeatTimer, lastHeartbeat,
                   lastTrueAt>>

\* The constructor: the timer is created and given the initial interval.
InitHeart ==
    /\ m_timeBetweenHeartbeats = InitialHeartbeatTicks
    /\ heartbeatClock = 0
    /\ m_heartbeatTimer =
          SetInterval(NewStopwatch(0), InitialHeartbeatTicks, 0)
    /\ lastHeartbeat = NoHeartbeatCall
    /\ lastTrueAt = -1

(***************************************************************************)
(* RemoteCommandService: receiving frames (RemoteCommandService.cpp)       *)
(***************************************************************************)
\* The frames the peer sends in one run.
MaxFrames == 2

\* The messages the peer sends: the bytes after the length.
FramePayloads == {<<1>>, <<0, 2>>, <<3, 4, 5>>, Zeros(U8)}

\* What RemoteCommandService::Send puts on the wire for a message: its
\* length in two bytes, big-endian, and its bytes.
EncodeFrame(payload) ==
    ToEndianness(BytesOf(Len(payload) % U16, 2), BIG_ENDIAN) \o payload

RECURSIVE EncodeFrames(_)
EncodeFrames(frames) ==
    IF frames = <<>> THEN <<>>
    ELSE EncodeFrame(frames[1]) \o EncodeFrames(Tail(frames))

\* BytePacker::Reserve: the buffer holds at least byteCount bytes.
Reserve(bp, byteCount) ==
    IF bp.m_bufferCapacity < byteCount
      THEN [bp EXCEPT !.m_bufferCapacity = byteCount] ELSE bp

\* BytePacker::Peek: the bytes at the read head, in machine order; the read
\* head stays.
Peek(bp, byteCount) ==
    FromEndianness(SubSeq(bp.m_buffer, bp.m_readHead + 1,
                          bp.m_readHead + byteCount), bp.m_endianness)

AdvanceReadHead(bp, byteCount) ==
    [bp EXCEPT !.m_readHead = bp.m_readHead + byteCount]

\* The numbers of bytes a Receive call asking for maxBytes can return when
\* `available` bytes have arrived: none, one, or all it can take.
ReceiveAmounts(maxBytes, available) ==
    {0, Min(1, Min(maxBytes, available)), Min(maxBytes, available)}

\* TCPSocket::Receive into the buffer's write head, followed by
\* AdvanceWriteHead with the amount received.
ReceiveInto(bp, bytes) ==
    AdvanceWriteHead([bp EXCEPT !.m_buffer = StoreAt(@, bp.m_writeHead, bytes)],
                     Len(bytes))

\* ProcessMessage reads the message from the read head to the write head.
MessageIn(bp) == SubSeq(bp.m_buffer, bp.m_readHead + 1, bp.m_writeHead)

NoProcess == [processed |-> FALSE, written |-> 0, declared |-> 0]

\* ProcessConnection: receive up to the two length bytes; with them, receive
\* up to the rest of the frame; with the whole frame, ProcessMessage and
\* ResetWrite.
ProcessConnection ==
    LET reserved == Reserve(frameBuffer, 2)
        wanted == IF GetWrittenByteCount(reserved) < 2
                    THEN 2 - GetWrittenByteCount(reserved) ELSE 0
    IN  \E amountReceived \in ReceiveAmounts(wanted, Len(frameStream)) :
          LET headed == ReceiveInto(reserved, SubSeq(frameStream, 1, amountReceived))
              rest == SubSeq(frameStream, amountReceived + 1, Len(frameStream))
          IN  IF GetWrittenByteCount(headed) >= 2
                THEN LET len == ValueOf(Peek(headed, 2))
                         roomy == Reserve(headed, len + 2)
                         bytesNeeded == SizeSub(len + 2, GetWrittenByteCount(roomy))
                     IN  \E read \in ReceiveAmounts(bytesNeeded, Len(rest)) :
                           LET filled == ReceiveInto(roomy, SubSeq(rest, 1, read))
                               isReadyToProcess == bytesNeeded - read = 0
                           IN  /\ frameStream' = SubSeq(rest, read + 1, Len(rest))
                               /\ IF isReadyToProcess
                                    THEN /\ frameLog' =
                                              Append(frameLog,
                                                     MessageIn(AdvanceReadHead(filled, 2)))
                                         /\ frameBuffer' = ResetWrite(filled)
                                         /\ lastProcess' =
                                              [processed |-> TRUE,
                                               written |-> GetWrittenByteCount(filled),
                                               declared |-> len]
                                    ELSE /\ frameLog' = frameLog
                                         /\ frameBuffer' = filled
                                         /\ lastProcess' = NoProcess
                               /\ UNCHANGED framesSent
                ELSE /\ frameStream' = rest
                     /\ frameBuffer' = headed
                     /\ lastProcess' = NoProcess
                     /\ UNCHANGED <<framesSent, frameLog>>

\* The peer sends a message: its frame arrives on the socket.
PeerSendsFrame(payload) ==
    /\ Len(framesSent) < MaxFrames
    /\ framesSent' = Append(framesSent, payload)
    /\ frameStream' = frameStream \o EncodeFrame(payload)
    /\ UNCHANGED <<frameBuffer, frameLog, lastProcess>>

\* The buffer CheckForNewConnections creates for a connection.
InitFrame ==
    /\ frameBuffer = NewBytePacker(0, BIG_ENDIAN)
    /\ frameStream = <<>>
    /\ framesSent = <<>>
    /\ frameLog = <<>>
    /\ lastProcess = NoProcess

InitMore == InitLoss /\ InitHeart /\ InitCmd /\ InitFrame

(***************************************************************************)
(* Specifications                                                          *)
(***************************************************************************)
Init ==
    InitSend /\ InitSeq /\ InitDedupe /\ InitRecv /\ InitTrack /\ InitCodec
      /\ InitUnit /\ InitOrder /\ InitTick /\ InitRCS /\ InitOwn
      /\ InitPacker /\ InitMore

otherThanSend ==
    <<seqVars, dedupeVars, recvVars, trackVars, codecVars, extraVars>>

Next ==
    \/ \E msg \in Messages : Send(msg) /\ UNCHANGED otherThanSend
    \/ watch.age < MaxAge /\ FlushMessages /\ UNCHANGED otherThanSend

Spec == Init /\ [][Next]_vars

NextAging ==
    \/ \E msg \in AgingMessages : Send(msg) /\ UNCHANGED otherThanSend
    \/ /\ watch.age < MAX_UNACKED_HISTORY + AgingSlack
       /\ FlushMessages
       /\ UNCHANGED otherThanSend

\* The send path with small messages, run until the watched message is more
\* than MAX_UNACKED_HISTORY packets old.
SpecAging == Init /\ [][NextAging]_vars

NextSeq ==
    \E c \in Channels, n \in 0..(MaxSequence - 1) :
        ProcessInOrderMessage(InOrderMessage(c, n))
          /\ UNCHANGED <<sendVars, dedupeVars, recvVars, trackVars, codecVars,
                       extraVars>>

\* Sequence channels under every arrival order of the sender's messages.
SpecSeq == Init /\ [][NextSeq]_vars

NextDedupe ==
    \E id \in 0..(MaxReliableID - 1) :
        ProcessReliableMessage(id)
          /\ UNCHANGED <<sendVars, seqVars, recvVars, trackVars, codecVars,
                       extraVars>>

\* The reliable-ID history under repeated arrivals.
SpecDedupe == Init /\ [][NextDedupe]_vars

NextRecv ==
    \E n \in PeerPackets :
        ReceivePeerPacket(n)
          /\ UNCHANGED <<seqVars, dedupeVars, codecVars, extraVars>>

\* The ack bookkeeping under every arrival order of the peer's packets.
SpecRecv == Init /\ [][NextRecv]_vars

NextAck ==
    \/ \E newCount \in 0..MaxNewPerPacket, resend \in BOOLEAN :
          SendReliablePacket(newCount, resend)
            /\ UNCHANGED <<seqVars, dedupeVars, recvVars, codecVars, extraVars>>
    \/ Tick /\ UNCHANGED <<seqVars, dedupeVars, recvVars, codecVars, extraVars>>
    \/ \E header \in AckHeaders :
          OnPacketReceived(header)
            /\ UNCHANGED <<seqVars, dedupeVars, receivedPackets, codecVars,
                           extraVars>>

\* Tracked packets going out and the peer's reports of them coming in.
SpecAck == Init /\ [][NextAck]_vars

NextHeader ==
    \/ \E header \in Headers, withMessage \in BOOLEAN, e \in Endiannesses :
          EncodeHeader(header,
                       IF withMessage THEN <<NetMessage(2, FALSE, MaxPayload)>>
                       ELSE <<>>, e)
            /\ UNCHANGED <<sendVars, seqVars, dedupeVars, recvVars, trackVars,
                           extraVars>>
    \/ DecodeHeader
         /\ UNCHANGED <<sendVars, seqVars, dedupeVars, recvVars, trackVars,
                           extraVars>>

\* Headers written to a packet and read back from it.
SpecHeader == Init /\ [][NextHeader]_vars

NextDecode ==
    \E header \in ReceivedHeaders, messages \in ReceivedMessages,
       count \in 0..(PACKET_HEADER_SIZE
                       + MaxMessages * (MESSAGE_FRAMING_BYTES + MaxPayload)) :
        ProcessIncomingPacket(header, messages, count)
          /\ UNCHANGED <<seqVars, dedupeVars, extraVars>>

\* Whole and cut-off packets arriving at a connection.
SpecDecode == Init /\ [][NextDecode]_vars

trackerRest ==
    <<connVars, orderVars, tickVars, rcsVars, ownVars, packerVars, moreVars>>

NextTracker ==
    \/ TrackerAdd /\ UNCHANGED trackerRest
    \/ TrackerClear /\ UNCHANGED trackerRest

\* AddReliableID and Clear called on one tracker in every order.
SpecTracker == Init /\ [][NextTracker]_vars

NextSendOrder ==
    \/ \E c \in Channels, r \in BOOLEAN :
          SendInOrder(c, r)
            /\ UNCHANGED <<seqVars, dedupeVars, recvVars, trackVars, codecVars,
                           unitVars, tickVars, rcsVars, ownVars, packerVars,
                           moreVars>>
    \/ \E msg \in AgingMessages :
          Send(msg)
            /\ UNCHANGED <<seqVars, dedupeVars, recvVars, trackVars, codecVars,
                           extraVars>>
    \/ /\ watch.age < MaxAge
       /\ FlushMessages
       /\ UNCHANGED <<seqVars, dedupeVars, recvVars, trackVars, codecVars,
                      extraVars>>

\* In-order messages sent on several channels, between other sends.
SpecSendOrder == Init /\ [][NextSendOrder]_vars

NextBulk ==
    \/ SendBulk /\ UNCHANGED otherThanSend
    \/ FlushBulk /\ UNCHANGED otherThanSend

\* One flush of a long queue of small messages.
SpecBulk == Init /\ [][NextBulk]_vars

ownRest ==
    <<seqVars, dedupeVars, recvVars, trackVars, codecVars, unitVars, orderVars,
      tickVars, rcsVars, packerVars, moreVars>>

NextOwn ==
    \/ \E msg \in AgingMessages : SendOwned(msg) /\ UNCHANGED ownRest
    \/ FlushOwned /\ UNCHANGED ownRest
    \/ DestroyConnection /\ UNCHANGED ownRest

\* The life of the NetMessage objects passed to one connection.
SpecOwn == Init /\ [][NextOwn]_vars

packerRest ==
    <<connVars, unitVars, orderVars, tickVars, rcsVars, ownVars, moreVars>>

NextPacker ==
    \/ \E data \in ByteRuns : PackerWriteBytes(data) /\ UNCHANGED packerRest
    \/ \E size \in Sizes : PackerWriteSize(size) /\ UNCHANGED packerRest
    \/ \E str \in Strings : PackerWriteString(str) /\ UNCHANGED packerRest
    \/ \E maxByteCount \in 1..2 :
          PackerReadBytes(maxByteCount) /\ UNCHANGED packerRest
    \/ \E uninitialised \in UninitialisedBytes :
          PackerReadSize(uninitialised) /\ UNCHANGED packerRest
    \/ \E maxByteSize \in {0, 3}, uninitialised \in UninitialisedBytes :
          PackerReadString(maxByteSize, uninitialised) /\ UNCHANGED packerRest
    \/ PackerResetWrite /\ UNCHANGED packerRest
    \/ PackerResetRead /\ UNCHANGED packerRest

\* Every sequence of calls on one BytePacker.
SpecPacker == Init /\ [][NextPacker]_vars

rcsRest ==
    <<connVars, unitVars, orderVars, tickVars, ownVars, packerVars, moreVars>>

\* What a console command of the service leaves alone.
commandRest ==
    <<connVars, unitVars, orderVars, tickVars, ownVars, packerVars, lossVars,
      heartVars, frameVars>>

NextRCS ==
    \/ BeginFrame /\ UNCHANGED rcsRest
    \/ \E messageSize \in MessageSizes, connectionIndex \in SendIndices :
          RCSSend(messageSize, connectionIndex)
            /\ UNCHANGED commandRest
    \/ Join /\ UNCHANGED rcsRest
    \/ Host /\ UNCHANGED rcsRest

\* The RemoteCommandService's frames, with console commands between them.
SpecRCS == Init /\ [][NextRCS]_vars

\* The service's frames with console commands between them; the engine
\* calls BeginFrame every frame, so a frame that changes anything is not
\* put off for ever.
SpecJoin ==
    Init /\ [][NextRCS]_vars /\ WF_vars(BeginFrame /\ UNCHANGED rcsRest)

NextCommand ==
    \/ BeginFrame /\ UNCHANGED rcsRest
    \/ \E commandSize \in MessageSizes :
          RemoteCommandAll(commandSize) /\ UNCHANGED commandRest

\* The service's frames, with the broadcast-and-run-here command between
\* them.
SpecCommand == Init /\ [][NextCommand]_vars

heartRest ==
    <<connVars, unitVars, orderVars, tickVars, rcsVars, ownVars, packerVars,
      lossVars, cmdVars, frameVars>>

frameRest ==
    <<connVars, unitVars, orderVars, tickVars, rcsVars, ownVars, packerVars,
      lossVars, cmdVars, heartVars>>

NextFrame ==
    \/ \E payload \in FramePayloads : PeerSendsFrame(payload) /\ UNCHANGED frameRest
    \/ ProcessConnection /\ UNCHANGED frameRest

\* Frames arriving in pieces on one connection of the service.
SpecFrame == Init /\ [][NextFrame]_vars

NextHeart ==
    \/ \E hertz \in TickRates : SetHeartbeat(hertz) /\ UNCHANGED heartRest
    \/ HasHeartbeatElapsed /\ UNCHANGED heartRest
    \/ AdvanceHeartbeatClock /\ UNCHANGED heartRest

\* Heartbeat polls and frequency changes as time passes.
SpecHeart == Init /\ [][NextHeart]_vars

tickRest ==
    <<seqVars, dedupeVars, recvVars, trackVars, codecVars, unitVars, orderVars,
      rcsVars, ownVars, packerVars, moreVars>>

NextTick ==
    \/ \E hertz \in TickRates :
          SetNetTickRate(hertz) /\ UNCHANGED <<sendVars, tickRest>>
    \/ \E hertz \in TickRates :
          SetSessionNetTickRate(hertz) /\ UNCHANGED <<sendVars, tickRest>>
    \/ ForceSendNextTick /\ UNCHANGED <<sendVars, tickRest>>
    \/ AdvanceSendTimer /\ UNCHANGED <<tickVars, tickRest>>
    \/ \E msg \in {NetMessage(1, FALSE, 10)} :
          Send(msg) /\ UNCHANGED <<tickVars, tickRest>>
    \/ FlushOnTick /\ UNCHANGED tickRest

\* The send timer running against the tick intervals, reset by every flush.
SpecTick == Init /\ [][NextTick]_vars

(***************************************************************************)
(* Properties of the send path                                             *)
(***************************************************************************)
InQueue(queue, msg) == \E i \in 1..Len(queue) : queue[i] = msg

RECURSIVE FramedBytes(_)
FramedBytes(messages) ==
    IF messages = <<>> THEN 0
    ELSE MESSAGE_FRAMING_BYTES + messages[1].m_writeHead
           + FramedBytes(Tail(messages))

\* C1: a reliable message passed to Send and not yet confirmed is, at every
\* point, in the unsent-reliable queue or in the unconfirmed-reliable set.
\* (Nothing in the send path confirms a message, so the watched reliable
\* message is unconfirmed for as long as it is watched.)
C1_ReliableAlwaysTracked ==
    watch.status # "none" =>
        \/ InQueue(m_unsentReliables, watch.msg)
        \/ InQueue(m_unconfirmedReliables, watch.msg)

\* C3: every packet FlushMessages hands to the Session is within PACKET_MTU:
\* the header size plus, for each of its messages, the framing and the
\* payload bytes is at most 1452, and so is the packet's written byte count.
C3_PacketWithinMTU ==
    \A i \in 1..Len(handed) :
        /\ PACKET_HEADER_SIZE + FramedBytes(handed[i].messages) <= PACKET_MTU
        /\ handed[i].writtenBytes <= PACKET_MTU

\* C5: a reliable message carried in a packet and never confirmed is, once
\* MAX_UNACKED_HISTORY further packets were sent, still held for retry: it
\* is in the unsent-reliable queue or the unconfirmed-reliable set.
C5_AgedOutReliableIsRetried ==
    (watch.status = "packed" /\ watch.age >= MAX_UNACKED_HISTORY) =>
        \/ InQueue(m_unsentReliables, watch.msg)
        \/ InQueue(m_unconfirmedReliables, watch.msg)

(***************************************************************************)
(* Properties of the receive path                                          *)
(***************************************************************************)
\* C2: on every sequence channel the sequence numbers handed to the
\* application are 0, 1, 2, ... in this order: strictly increasing, without
\* gap and without duplicate, whatever the arrival order and repetitions.
C2_InOrderGaplessDelivery ==
    \A c \in Channels :
        \A i \in 1..Len(delivered[c]) : delivered[c][i] = i - 1

\* Channel 0 delivered everything although the last message came first and
\* some message arrived twice.
C2_Witness ==
    /\ Len(delivered[0]) = MaxSequence
    /\ Len(arrivalLog) > 0
    /\ arrivalLog[1] = InOrderMessage(0, MaxSequence - 1)
    /\ \E i, j \in 1..Len(arrivalLog) : i < j /\ arrivalLog[i] = arrivalLog[j]

C6_OnAckConfirmedIdempotent ==
    /\ \A ack \in ReportedAcks :
          LET once == OnAckConfirmed(TrackedConnection, ack, now)
          IN  OnAckConfirmed(once, ack, now) = once
    /\ \A i, j \in 1..Len(freedLog) : i # j => freedLog[i] # freedLog[j]

\* A confirmation has freed a message, and an ack whose tracker is active
\* and records a message still unconfirmed is about to be confirmed.
C6_Witness ==
    /\ freedLog # <<>>
    /\ \E ack \in ReportedAcks :
          /\ GetTrackerForAck(m_packetTrackers, ack) # -1
          /\ OnAckConfirmed(TrackedConnection, ack, now).unconfirmed
                # m_unconfirmedReliables

\* C9: m_highestReceivedAck is the ack of the newest packet received; bit i
\* of m_receivedBitfield is set exactly when the packet i before the newest
\* was received (its ack is (m_highestReceivedAck - i) mod 2^16); and a
\* packet ack arriving again changes neither.
C9_ReceivedBitfieldExact ==
    /\ receivedPackets # {} =>
          m_highestReceivedAck = AckOf(SetMax(receivedPackets))
    /\ \A i \in 0..(HISTORY_BITS - 1) :
          /\ Bit(m_receivedBitfield, i) = 1
               <=> receivedPackets # {}
                     /\ (SetMax(receivedPackets) - i) \in receivedPackets
          /\ Bit(m_receivedBitfield, i) = 1
               => ((m_highestReceivedAck - i + U16) % U16) \in receivedAcks
    /\ lastRecv.repeat =>
          /\ m_highestReceivedAck = lastRecv.highest
          /\ m_receivedBitfield = lastRecv.bitfield

\* Packets from both sides of the 16-bit wrap were received, out of order
\* and one of them twice, and the window holds more than the newest ack.
C9_Witness ==
    /\ lastRecv.repeat
    /\ m_highestReceivedAck = 4
    /\ lastRecv.header.packetAck = 65534
    /\ 65530 \in receivedPackets
    /\ Bit(m_receivedBitfield, 6) = 1
    /\ Bit(m_receivedBitfield, 1) = 0

\* C10: OnPacketReceived with a valid highestReceivedAck confirms exactly
\* the acks its receivedHistory marks (bit i: the ack i before
\* highestReceivedAck, modulo 2^16): those acks and no others went to
\* OnAckConfirmed, and of the trackers active before exactly theirs were
\* invalidated.
C10_ConfirmsExactlyMarkedAcks ==
    LET header == lastRecv.header
        marked == {(header.highestReceivedAck - i + U16) % U16 :
                     i \in {j \in 0..(HISTORY_BITS - 1) :
                              Bit(header.receivedHistory, j) = 1}}
    IN  header.highestReceivedAck # INVALID_PACKET_ACK =>
          /\ lastConfirmed = marked
          /\ lastRecv.active \ ActiveAcks(m_packetTrackers)
                = lastRecv.active \cap marked

\* A header marking two acks arrived while three trackers were active: the
\* two were invalidated and the third was left alone.
C10_Witness ==
    /\ lastRecv.header.highestReceivedAck = 2
    /\ lastRecv.header.receivedHistory = 6
    /\ lastRecv.active = {0, 1, 2}
    /\ ActiveAcks(m_packetTrackers) = {2}

(***************************************************************************)
(* Properties of the codec                                                 *)
(***************************************************************************)
\* C7: ReadHeader after WriteHeader on the same packet succeeds, gives back
\* every field of the header written, and consumes exactly 8 bytes.
C7_HeaderRoundTrip ==
    headerRead.done =>
        /\ headerRead.ok
        /\ headerRead.header = wire.header
        /\ headerRead.consumed = PACKET_HEADER_SIZE

\* A header with packetAck 65535 and two-byte fields whose bytes differ was
\* read back from a big-endian packet that also holds a message.
C7_Witness ==
    /\ headerRead.done
    /\ wire.header.packetAck = INVALID_PACKET_ACK
    /\ wire.header.receivedHistory = 65280
    /\ wire.header.highestReceivedAck = 258
    /\ wire.header.totalMessageCount = U8 - 1
    /\ wire.packet.m_endianness = BIG_ENDIAN
    /\ wire.packet.m_writeHead > PACKET_HEADER_SIZE

\* C8: a received packet whose header declares more messages than are
\* completely present fails to decode, is not read beyond its received
\* bytes, has none of its messages delivered, and leaves the connection as
\* it was; a packet that decodes after a failed one is delivered in full.
C8_ShortPacketDropped ==
    /\ (lastDecode.received >= 0 /\ lastDecode.declared > lastDecode.present) =>
          /\ ~lastDecode.ok
          /\ lastDecode.readHead <= lastDecode.received
          /\ lastDecode.delivered = <<>>
          /\ ConnectionState = lastDecode.before
    /\ (lastDecode.afterFailure /\ lastDecode.declared <= lastDecode.present
          /\ lastDecode.received >= PACKET_HEADER_SIZE) =>
          /\ lastDecode.ok
          /\ Len(lastDecode.delivered) = lastDecode.declared

\* A packet declaring 3 messages arrived with 2 of them whole and a part of
\* the third, after the connection had taken note of an earlier packet.
C8_Witness ==
    /\ lastDecode.declared = 3
    /\ lastDecode.present = 2
    /\ lastDecode.received > PACKET_HEADER_SIZE + 2 * MESSAGE_FRAMING_BYTES
    /\ ~lastDecode.ok
    /\ m_highestReceivedAck = 1

(***************************************************************************)
(* Properties of the tracker ring                                          *)
(***************************************************************************)
\* C11: when OnPacketReceived confirms a single ack whose tracker is active,
\* OnAckConfirmed removes from the unconfirmed-reliable set exactly the
\* messages whose IDs the tracker recorded, leaves the other queues and
\* every other tracker slot as they were, and leaves the ack's slot cleared.
C11_OnAckConfirmedFrame ==
    [][\A header \in AckHeaders :
         LET ack == header.highestReceivedAck
             slot == SlotOf(ack)
             ids == Range(TrackedIDs(m_packetTrackers[slot]))
         IN  (/\ lastRecv'.header = header
              /\ ack # INVALID_PACKET_ACK
              /\ AcksMarked(header, 0) = <<ack>>
              /\ GetTrackerForAck(m_packetTrackers, ack) # -1
              /\ OnPacketReceived(header)) =>
               /\ m_unconfirmedReliables' =
                     SelectSeq(m_unconfirmedReliables,
                               LAMBDA m : m.reliableID \notin ids)
               /\ m_outboundUnreliables' = m_outboundUnreliables
               /\ m_unsentReliables' = m_unsentReliables
               /\ \A other \in DOMAIN m_packetTrackers :
                     other # slot =>
                        m_packetTrackers'[other] = m_packetTrackers[other]
               /\ m_packetTrackers'[slot].packetAck = INVALID_PACKET_ACK
               /\ m_packetTrackers'[slot].m_reliablesInPacket = 0]_vars

\* Ack 0 was confirmed while its tracker was active: its reliable message
\* was freed, another one is still unconfirmed and another tracker active.
C11_Witness ==
    /\ lastConfirmed = {0}
    /\ 0 \in lastRecv.active
    /\ freedLog = <<0>>
    /\ Len(m_unconfirmedReliables) = 1
    /\ ActiveAcks(m_packetTrackers) = {1}
    /\ m_packetTrackers[0].packetAck = INVALID_PACKET_ACK

\* The reliable IDs of the reliable messages among the given ones.
ReliableIDsOf(messages) ==
    {messages[k].reliableID : k \in {j \in 1..Len(messages) : messages[j].reliable}}

\* C12: every packet FlushMessages has just handed to the Session, with ack
\* a, has left the tracker at slot a mod 256 active with packetAck = a and
\* holding exactly the reliable IDs of the packet's reliable messages.
C12_SentPacketTracked ==
    \A i \in 1..Len(handed) :
        LET a == handed[i].header.packetAck
            tracker == m_packetTrackers[SlotOf(a)]
        IN  /\ a # INVALID_PACKET_ACK
            /\ tracker.packetAck = a
            /\ Range(TrackedIDs(tracker)) = ReliableIDsOf(handed[i].messages)

\* C13: AddReliableID succeeds and appends the ID on each of the first 32
\* calls after construction or Clear; every further call fails and leaves
\* the recorded IDs and m_reliablesInPacket (= 32) as they were; and
\* m_reliablesInPacket never exceeds MAX_RELIABLES_PER_PACKET.
C13_AddReliableIDCapped ==
    /\ unitTracker.m_reliablesInPacket <= MAX_RELIABLES_PER_PACKET
    /\ lastAdd.called =>
          IF lastAdd.nth <= MAX_RELIABLES_PER_PACKET
            THEN /\ lastAdd.result
                 /\ TrackedIDs(unitTracker) =
                       Append(TrackedIDs(lastAdd.before), lastAdd.reliableID)
                 /\ unitTracker.m_reliablesInPacket = lastAdd.nth
            ELSE /\ ~lastAdd.result
                 /\ TrackedIDs(unitTracker) = TrackedIDs(lastAdd.before)
                 /\ unitTracker.m_reliablesInPacket = MAX_RELIABLES_PER_PACKET

\* The 33rd call after a Clear failed, on a tracker whose 32 recorded IDs
\* wrap at 16 bits.
C13_Witness ==
    /\ lastAdd.called
    /\ ~lastAdd.result
    /\ lastAdd.nth = MAX_RELIABLES_PER_PACKET + 1
    /\ clearCalls > 0
    /\ unitTracker.m_reliablesInPacket = MAX_RELIABLES_PER_PACKET
    /\ TrackedIDs(unitTracker)[MAX_RELIABLES_PER_PACKET] < TrackedIDs(unitTracker)[1]

\* C14: the reliable messages of every packet FlushMessages has handed to
\* the Session are in the unconfirmed-reliable set, not freed, and a reliable
\* message once carried stays there while no ack for it is confirmed (the
\* send path confirms none).
C14_ReliableKeptAfterHandOff ==
    /\ \A i \in 1..Len(handed) :
          \A k \in 1..Len(handed[i].messages) :
              handed[i].messages[k].reliable =>
                  InQueue(m_unconfirmedReliables, handed[i].messages[k])
    /\ watch.status = "packed" => InQueue(m_unconfirmedReliables, watch.msg)

\* C15: Send appends an unreliable message to the unreliable FIFO and leaves
\* both reliable queues alone; a reliable message gets m_nextReliableIDToSend
\* as its reliable ID, the counter goes up by one (mod 2^16), the message is
\* appended to the unsent-reliable FIFO and the unreliable FIFO is left
\* alone.
C15_SendQueuesByKind ==
    [][\A msg \in Messages :
         Send(msg) =>
           IF msg.reliable
             THEN /\ m_unsentReliables' =
                        Append(m_unsentReliables,
                               [msg EXCEPT !.reliableID = m_nextReliableIDToSend])
                  /\ m_nextReliableIDToSend' = (m_nextReliableIDToSend + 1) % U16
                  /\ m_outboundUnreliables' = m_outboundUnreliables
             ELSE /\ m_outboundUnreliables' = Append(m_outboundUnreliables, msg)
                  /\ m_unsentReliables' = m_unsentReliables
                  /\ m_unconfirmedReliables' = m_unconfirmedReliables]_vars

\* C16: the k-th in-order message passed to Send on a channel is queued
\* carrying sequence number (k - 1) mod 2^16, whatever was sent on other
\* channels or without a channel in between.
C16_SequenceNumberPerChannel ==
    [][\A c \in Channels, r \in BOOLEAN :
         SendInOrder(c, r) =>
           \E queue \in {1, 2, 3} :
              LET before == queueVars[queue]
                  after == queueVars'[queue]
              IN  /\ Len(after) = Len(before) + 1
                  /\ after[Len(after)].sequenceChannelID = c
                  /\ after[Len(after)].sequenceID = sendCount[c] % U16]_vars

\* C17: no packet FlushMessages hands to the Session carries packetAck =
\* INVALID_PACKET_ACK, and successive packets carry packetAck values that
\* go up by exactly one modulo 2^16, so that packets handed over together
\* never share one.
C17_PacketAckAdvances ==
    /\ \A i \in 1..Len(handed) :
          handed[i].header.packetAck # INVALID_PACKET_ACK
    /\ \A i \in 1..(Len(handed) - 1) :
          handed[i + 1].header.packetAck =
              (handed[i].header.packetAck + 1) % U16

\* C19: a message arriving on one sequence channel leaves the next expected
\* sequence number, the held messages and the deliveries of every other
\* channel as they were; and a message that is the next expected one on its
\* own channel is delivered at once, whatever is missing on other channels.
C19_ChannelsIndependent ==
    [][\A c \in Channels, n \in 0..(MaxSequence - 1) :
         ProcessInOrderMessage(InOrderMessage(c, n)) =>
           /\ \A b \in Channels \ {c} :
                 /\ m_sequenceChannels'[b] = m_sequenceChannels[b]
                 /\ delivered'[b] = delivered[b]
           /\ n = m_sequenceChannels[c].m_nextSequenceExpected =>
                 /\ Len(delivered'[c]) > Len(delivered[c])
                 /\ delivered'[c][Len(delivered[c]) + 1] = n]_vars

\* Channel 0 waits for its sequence number 0 with a later message held
\* back, while channel 1 has just delivered its second message.
C19_Witness ==
    /\ m_sequenceChannels[0].m_nextSequenceExpected = 0
    /\ m_sequenceChannels[0].m_outOfOrderMessages # <<>>
    /\ delivered[0] = <<>>
    /\ delivered[1] = <<0, 1>>
    /\ arrivalLog[Len(arrivalLog)] = InOrderMessage(1, 1)
    /\ arrivalLog[1].sequenceChannelID = 0

(***************************************************************************)
(* Properties of the net tick                                              *)
(***************************************************************************)
\* C20: once a tick rate has been set, IsReadyToFlush is true exactly when
\* the time since the last send is at least the larger of the session's and
\* the connection's tick interval, or NeedsToForceSend is true; so it is
\* true when the elapsed time equals the interval.
C20_ReadyToFlushAtInterval ==
    MaxFloat(sessionTimeBetweenSends, m_timeBetweenSends) > 0 =>
        (IsReadyToFlush <=>
            \/ m_sendTimer >= MaxFloat(sessionTimeBetweenSends, m_timeBetweenSends)
            \/ NeedsToForceSend)

\* C21: when NeedsToForceSend is true and all three outbound queues are
\* empty, FlushMessages still hands exactly one packet to the Session, with
\* message count 0 in its header (an ack-only heartbeat), and leaves the
\* forced-send flag cleared.
C21_ForcedFlushSendsHeartbeat ==
    (lastFlush.called /\ lastFlush.forced /\ lastFlush.queuesEmpty) =>
        /\ Len(lastFlush.handed) = 1
        /\ lastFlush.handed[1].header.totalMessageCount = 0
        /\ ~lastFlush.forcedAfter

\* C22: no packet handed to the Session by FlushMessages carries more than
\* MAX_RELIABLES_PER_PACKET (32) reliable messages, whatever their sizes.
C22_AtMost32ReliablesPerPacket ==
    \A i \in 1..Len(handed) :
        Cardinality({k \in 1..Len(handed[i].messages) :
                        handed[i].messages[k].reliable})
            <= MAX_RELIABLES_PER_PACKET

\* C23: a connection of the RemoteCommandService that has been closed is
\* removed, with its buffer, by CleanUpClosedConnections and is never passed
\* to ProcessConnection in a later BeginFrame; the buffers stay paired with
\* their connections.
C23_ClosedConnectionNotProcessed ==
    /\ lateProcessed = {}
    /\ Len(m_buffers) = Len(m_connections)
    /\ \A i \in 1..Len(m_connections) :
          m_buffers[i].socket = m_connections[i].socket

\* C24: for every packet FlushMessages hands to the Session, the header's
\* total message count equals the number of messages written into that
\* packet, for any number and any sizes of queued messages.
C24_HeaderCountsMessages ==
    \A i \in 1..Len(handed) :
        handed[i].header.totalMessageCount = Len(handed[i].messages)

\* The messages of a sequence of packets, concatenated in send order.
RECURSIVE ConcatMessages(_)
ConcatMessages(packets) ==
    IF packets = <<>> THEN <<>>
    ELSE packets[1].messages \o ConcatMessages(Tail(packets))

\* The message fits a packet that holds nothing but the reserved bytes.
FitsEmptyPacket(msg) ==
    MESSAGE_FRAMING_BYTES + GetWrittenByteCount(msg)
        <= PACKET_MTU - RESERVED_HEADER_BYTES

\* C25: for a queue in which each message fits an empty packet, one
\* FlushMessages hands the Session packets whose messages, concatenated in
\* send order, are exactly the queued messages in FIFO order (each in one
\* packet), and the unreliable queue is empty afterwards.
C25_FlushKeepsFIFO ==
    [][(/\ Len(m_outboundUnreliables) > 0
        /\ \A i \in 1..Len(m_outboundUnreliables) :
              FitsEmptyPacket(m_outboundUnreliables[i])
        /\ FlushMessages)
          => /\ ConcatMessages(handed') = m_outboundUnreliables
             /\ m_outboundUnreliables' = <<>>]_vars

\* A flush has split two queued messages over two packets.
C25_Witness ==
    /\ Len(handed) = 2
    /\ Len(handed[1].messages) = 1
    /\ Len(handed[2].messages) = 1
    /\ FitsEmptyPacket(handed[1].messages[1])
    /\ FitsEmptyPacket(handed[2].messages[1])
    /\ m_outboundUnreliables = <<>>

\* C26: OnAckConfirmed for an ack whose slot (ack mod 256) is inactive, or
\* holds the tracker of a different packet, confirms nothing: the
\* unconfirmed reliable messages stay queued, none is freed, every tracker
\* (the slot's included) and the round-trip time are unchanged.
C26_UnmatchedAckConfirmsNothing ==
    [][\A header \in AckHeaders :
         LET ack == header.highestReceivedAck
         IN  (/\ lastRecv'.header = header
              /\ ack # INVALID_PACKET_ACK
              /\ AcksMarked(header, 0) = <<ack>>
              /\ m_packetTrackers[SlotOf(ack)].packetAck # ack
              /\ OnPacketReceived(header)) =>
               /\ m_unconfirmedReliables' = m_unconfirmedReliables
               /\ m_unsentReliables' = m_unsentReliables
               /\ freedLog' = freedLog
               /\ m_packetTrackers' = m_packetTrackers
               /\ m_rtt' = m_rtt]_vars

\* Ack 256 was reported while slot 0 held the active tracker of packet 0:
\* that tracker is still active and its reliable message still unconfirmed.
C26_Witness ==
    /\ lastConfirmed = {MAX_UNACKED_HISTORY}
    /\ 0 \in lastRecv.active
    /\ m_packetTrackers[0].packetAck = 0
    /\ TrackedIDs(m_packetTrackers[0]) = <<0>>
    /\ Len(m_unconfirmedReliables) = 1
    /\ freedLog = <<>>

\* C27: after the connection has processed an arrival, no sequence channel
\* holds back a message whose sequence number is the channel's next expected
\* one: a message that arrived early is delivered in the step that delivers
\* its predecessor, and the next expected number has advanced by one per
\* delivered message.
C27_NoDeliverableMessageHeld ==
    \A c \in Channels :
        /\ \A i \in 1..Len(m_sequenceChannels[c].m_outOfOrderMessages) :
              m_sequenceChannels[c].m_outOfOrderMessages[i].sequenceID
                  # m_sequenceChannels[c].m_nextSequenceExpected
        /\ m_sequenceChannels[c].m_nextSequenceExpected
              = Len(delivered[c]) % U16

\* Channel 0 received its sequence numbers 2, 1, 0 in this order: the last
\* arrival delivered all three and nothing is held.
C27_Witness ==
    /\ arrivalLog = <<InOrderMessage(0, 2), InOrderMessage(0, 1),
                      InOrderMessage(0, 0)>>
    /\ delivered[0] = <<0, 1, 2>>
    /\ m_sequenceChannels[0].m_outOfOrderMessages = <<>>
    /\ m_sequenceChannels[0].m_nextSequenceExpected = 3

\* The numbers of the messages a queue holds.
PointersIn(queue) == Range(heldPointers[queue])

\* C28: in every state a NetMessage pending on the connection is held by
\* exactly one of the three outbound queues, once: no message is in two
\* queues, no reliable message is both unsent and unconfirmed, and no queue
\* holds a message that has been freed.
C28_MessageInExactlyOneQueue ==
    /\ Len(heldPointers.unreliable) = Len(m_outboundUnreliables)
    /\ Len(heldPointers.unsent) = Len(m_unsentReliables)
    /\ Len(heldPointers.unconfirmed) = Len(m_unconfirmedReliables)
    /\ \A q \in DOMAIN heldPointers :
          /\ Cardinality(PointersIn(q)) = Len(heldPointers[q])
          /\ PointersIn(q) \cap freedPointers = {}
          /\ \A other \in DOMAIN heldPointers \ {q} :
                PointersIn(q) \cap PointersIn(other) = {}
    /\ \A pointer \in 1..allocated :
          pointer \notin freedPointers =>
             \E q \in DOMAIN heldPointers : pointer \in PointersIn(q)

\* A reliable and an unreliable message are pending, both in one queue,
\* after two earlier messages were flushed and freed.
C28_Witness ==
    /\ freedPointers = {1, 2}
    /\ heldPointers.unreliable = <<3, 4>>
    /\ Len(m_outboundUnreliables) = 2
    /\ m_outboundUnreliables[1].reliable
    /\ ~m_outboundUnreliables[2].reliable
    /\ Len(handed) > 0

\* C29: after any sequence of BytePacker operations (each of which
\* returned) the cursors satisfy readHead <= writeHead <= bufferCapacity, so
\* that the remaining readable and writable byte counts never underflow.
C29_CursorsOrdered ==
    ~packerHung =>
        /\ packer.m_readHead <= packer.m_writeHead
        /\ packer.m_writeHead <= packer.m_bufferCapacity

\* C30: the size encoding round-trips: WriteSize(n) followed by ReadSize on
\* the same buffer yields n and reads as many bytes as WriteSize wrote, also
\* for n >= 128.
C30_SizeRoundTrip ==
    (/\ Len(packerLog) >= 2
     /\ packerLog[1].op = "WriteSize"
     /\ packerLog[2].op = "ReadSize") =>
        /\ packerLog[2].out.size = packerLog[1].in
        /\ packerLog[2].out.bytesRead = packerLog[1].out

\* The reliable messages among the messages of a sequence of packets.
ReliablesIn(packets) ==
    SelectSeq(ConcatMessages(packets), LAMBDA m : m.reliable)

\* C31: reliable messages are packed only inside the reliable window: at
\* every point at most RELIABLE_WINDOW (32) reliable messages have been
\* handed on without being confirmed (the send path confirms none), and the
\* unconfirmed-reliable set holds at most RELIABLE_WINDOW messages.
C31_ReliableWindowBoundsInFlight ==
    /\ Len(ReliablesIn(handed)) <= RELIABLE_WINDOW
    /\ Len(m_unconfirmedReliables) <= RELIABLE_WINDOW

\* C32: the loss counters stay ordered, 0 <= m_lossCount <= m_packetsSent <=
\* LOSS_WINDOW_COUNT (50), and every packet sent is counted once: a
\* FlushMessages that hands on k packets without completing the window of
\* 50 raises m_packetsSent by k.
C32_LossCountersFollowSends ==
    [][FlushMessages =>
         /\ 0 <= m_lossCount' /\ m_lossCount' <= m_packetsSent'
         /\ m_packetsSent' <= LOSS_WINDOW_COUNT
         /\ m_packetsSent + Len(handed') < LOSS_WINDOW_COUNT =>
              m_packetsSent' = m_packetsSent + Len(handed')]_vars

\* C38: every slot s of the tracker ring is either invalid (packetAck 0xFFFF
\* with no reliable ID recorded) or holds a packet whose ack mod 256 is s,
\* with at most 32 recorded reliable IDs, each the ID of a message that is
\* still unconfirmed or was confirmed through another packet.
C38_TrackerSlotsWellFormed ==
    \A slot \in DOMAIN m_packetTrackers :
        LET tracker == m_packetTrackers[slot]
        IN  IF tracker.packetAck = INVALID_PACKET_ACK
              THEN tracker.m_reliablesInPacket = 0
              ELSE /\ SlotOf(tracker.packetAck) = slot
                   /\ tracker.m_reliablesInPacket <= MAX_RELIABLES_PER_PACKET
                   /\ \A reliableID \in Range(TrackedIDs(tracker)) :
                         \/ \E i \in 1..Len(m_unconfirmedReliables) :
                               m_unconfirmedReliables[i].reliableID = reliableID
                         \/ reliableID \in Range(freedLog)

\* One slot was invalidated by a confirmed ack, and another still tracks a
\* packet that carried the reliable message confirmed through the first.
C38_Witness ==
    /\ m_packetTrackers[0].packetAck = INVALID_PACKET_ACK
    /\ m_packetTrackers[1].packetAck = 1
    /\ TrackedIDs(m_packetTrackers[1]) = <<0, 1>>
    /\ 0 \in Range(freedLog)
    /\ Len(m_unconfirmedReliables) = 1
    /\ m_unconfirmedReliables[1].reliableID = 1

\* C39: HasHeartbeatElapsed returns true at most once per heartbeat
\* interval: a call that returns true restarts the timer at the time of the
\* call, and comes no sooner than one interval (as last set) after the
\* previous call that returned true; a call that returns false leaves the
\* timer as it was.
C39_HeartbeatOncePerInterval ==
    lastHeartbeat.called =>
        IF lastHeartbeat.returned
          THEN /\ lastHeartbeat.after.start = lastHeartbeat.at
               /\ lastHeartbeat.after.interval = lastHeartbeat.interval
               /\ lastHeartbeat.sinceTrue # -1 =>
                     lastHeartbeat.sinceTrue >= lastHeartbeat.interval
          ELSE lastHeartbeat.after = lastHeartbeat.before

\* A call returned true a full interval after the previous true call, and
\* the interval had been changed by SetHeartbeat in between.
C39_Witness ==
    /\ lastHeartbeat.called /\ lastHeartbeat.returned
    /\ lastHeartbeat.sinceTrue # -1
    /\ lastHeartbeat.interval # InitialHeartbeatTicks
    /\ lastHeartbeat.sinceTrue > lastHeartbeat.interval

\* C34: m_connections and m_buffers are always of the same length, and the
\* buffer at each index is the one created for the connection at that index,
\* after accepting, joining, cleaning up closed connections, closing all
\* connections and Host.
C34_BuffersPairedWithConnections ==
    /\ Len(m_connections) = Len(m_buffers)
    /\ \A i \in DOMAIN m_connections :
          m_connections[i].socket = m_buffers[i].socket

\* The second connection was cleaned up with its buffer while the first
\* stayed, and a third one is held.
C34_Witness ==
    /\ Len(m_connections) = 2
    /\ m_connections[1].socket = 1 /\ m_connections[2].socket = 3
    /\ m_buffers[1].socket = 1 /\ m_buffers[2].socket = 3

\* C36: RemoteCommandService::Send returns false and sends nothing for an
\* empty message and for every connection index outside 0 .. count - 1,
\* negative ones included, and accesses m_connections only at valid indices.
C36_SendRejectsInvalidIndex ==
    lastSend.called =>
        /\ (\/ lastSend.messageSize = 0
            \/ lastSend.connectionIndex < 0
            \/ lastSend.connectionIndex >= lastSend.connectionCount) =>
               (~lastSend.returned /\ lastSend.accessed = <<>>)
        /\ \A i \in 1..Len(lastSend.accessed) :
               /\ 0 <= lastSend.accessed[i]
               /\ lastSend.accessed[i] < lastSend.connectionCount

\* C33: the broadcast-and-run-here command given a command that is not
\* empty attempts a send to every connection, in index order, before it
\* runs the command locally, and runs it locally exactly once, after the
\* stall; given an empty command it neither sends nor runs.
C33_BroadcastThenRunLocally ==
    lastAll.called =>
        IF lastAll.commandSize = 0
          THEN lastAll.log = <<>>
          ELSE /\ Len(lastAll.log) = lastAll.connectionCount + 2
               /\ \A i \in 1..lastAll.connectionCount :
                     /\ lastAll.log[i].event = "send"
                     /\ lastAll.log[i].index = i - 1
                     /\ lastAll.log[i].attempted
               /\ lastAll.log[lastAll.connectionCount + 1].event = "stall"
               /\ lastAll.log[lastAll.connectionCount + 2].event = "run"

\* The command went to three connections, the first of which the send found
\* lost, and was then run locally.
C33_Witness ==
    /\ lastAll.called
    /\ lastAll.commandSize > 0
    /\ lastAll.connectionCount = 3
    /\ Len(m_connections) = 3
    /\ m_connections[1].closed
    /\ lastAll.log[Len(lastAll.log)].event = "run"

\* C35: ProcessConnection calls ProcessMessage only with a complete frame
\* in the buffer (the two length bytes and exactly the declared number of
\* bytes); bytes of a partial frame stay in the buffer from one call to the
\* next; each complete frame is processed once, with its own bytes, in the
\* order sent; and the buffer is empty after a frame was processed.
C35_CompleteFramesProcessedOnce ==
    /\ lastProcess.processed =>
          /\ lastProcess.written = 2 + lastProcess.declared
          /\ frameBuffer.m_writeHead = 0
          /\ frameBuffer.m_readHead = 0
    /\ Len(frameLog) <= Len(framesSent)
    /\ \A i \in 1..Len(frameLog) : frameLog[i] = framesSent[i]
    /\ EncodeFrames(frameLog)
         \o SubSeq(frameBuffer.m_buffer, 1, frameBuffer.m_writeHead)
         \o frameStream
       = EncodeFrames(framesSent)

\* Two frames were processed, the second one of 256 bytes, and nothing is
\* left on the socket.
C35_Witness ==
    /\ lastProcess.processed
    /\ Len(frameLog) = 2
    /\ lastProcess.declared = U8
    /\ frameLog[1] = <<3, 4, 5>>
    /\ frameStream = <<>>

\* The service is about to make the connection attempt of a join request.
AttemptPending ==
    m_state = "STATE_TRYTOJOINADDRESS" /\ m_joinRequestAddress

\* Host() has dropped the join request and sent the service to host.
HostWithdrew ==
    m_state = "STATE_TRYTOHOST" /\ ~m_joinRequestAddress /\ m_connections = <<>>

\* What BeginFrame does with a join request, apart from reaching the attempt:
\* in HOST or CLIENT it sends the service to STATE_INITIAL in one frame, in
\* STATE_INITIAL it closes all connections, and the attempt clears the
\* request and ends in CLIENT with exactly one connection or in INITIAL.
JoinRequestSteps ==
    (m_joinRequestAddress /\ BeginFrame) =>
        /\ m_state \in {"STATE_HOST", "STATE_CLIENT"} =>
              m_state' = "STATE_INITIAL"
        /\ m_state = "STATE_INITIAL" =>
              (m_connections' = <<>> /\ AttemptPending')
        /\ m_state = "STATE_TRYTOJOINADDRESS" =>
              /\ ~m_joinRequestAddress'
              /\ \/ m_state' = "STATE_CLIENT" /\ Len(m_connections') = 1
                 \/ m_state' = "STATE_INITIAL"

=============================================================================
